---- MODULE Spec2Model ----
(***************************************************************************)
(* mdweb: the literate-programming line classifier of tokenshift/mdweb.    *)
(*                                                                         *)
(* Two versions of package mdweb are modelled:                             *)
(*   - the "closure" version (state functions stateText, stateCode, ...    *)
(*     bound to a StateData value by partialState; lines read with         *)
(*     bufio.Scanner);                                                     *)
(*   - the "enum" version (processLine / processDirective over the package *)
(*     variables state and currentTarget; lines read with                  *)
(*     reader.ReadString('\n')).                                           *)
(*                                                                         *)
(* A Go string is a sequence of one-character strings; "" is << >>.        *)
(***************************************************************************)
EXTENDS Integers, Sequences, FiniteSets, TLC

TAB == "\t"
SP == " "
NL == "\n"

\* ------------------------------------------------------------------------
\* Bounds of the model
\* ------------------------------------------------------------------------

\* Largest number of lines of a document.
MaxLines == 4

\* ------------------------------------------------------------------------
\* Strings
\* ------------------------------------------------------------------------

\* unicode.IsSpace, restricted to the characters of the model's alphabet.
IsSpace(c) == c \in {SP, TAB, NL}

\* strings.HasPrefix
HasPrefix(s, prefix) ==
    /\ Len(s) >= Len(prefix)
    /\ SubSeq(s, 1, Len(prefix)) = prefix

RECURSIVE TrimLeft(_)
TrimLeft(s) ==
    IF s # << >> /\ IsSpace(Head(s)) THEN TrimLeft(Tail(s)) ELSE s

RECURSIVE TrimRight(_)
TrimRight(s) ==
    IF s # << >> /\ IsSpace(s[Len(s)])
    THEN TrimRight(SubSeq(s, 1, Len(s) - 1))
    ELSE s

\* strings.TrimSpace
TrimSpace(s) == TrimRight(TrimLeft(s))

\* The directive <<payload>> as it is written in a document.
Directive(payload) == <<"<", "<">> \o payload \o <<">", ">">>

\* ------------------------------------------------------------------------
\* Output file names
\* ------------------------------------------------------------------------

IsPathSeparator(c) == c = "/"

RECURSIVE StripTrailingSlashes(_)
StripTrailingSlashes(path) ==
    IF path # << >> /\ IsPathSeparator(path[Len(path)])
    THEN StripTrailingSlashes(SubSeq(path, 1, Len(path) - 1))
    ELSE path

\* Index of the last path separator of s, 0 when there is none.
LastSlash(s) ==
    LET idx == {i \in 1..Len(s) : IsPathSeparator(s[i])}
    IN  IF idx = {} THEN 0 ELSE CHOOSE i \in idx : \A j \in idx : j <= i

\* filepath.Base
Base(path) ==
    IF path = << >> THEN <<".">>
    ELSE LET p == StripTrailingSlashes(path)
             q == SubSeq(p, LastSlash(p) + 1, Len(p))
         IN  IF q = << >> THEN <<"/">> ELSE q

\* filepath.Ext: the suffix beginning at the final dot of the final element.
Ext(path) ==
    LET from == LastSlash(path) + 1
        dots == {i \in from..Len(path) : path[i] = "."}
    IN  IF dots = {} THEN << >>
        ELSE LET d == CHOOSE i \in dots : \A j \in dots : j <= i
             IN  SubSeq(path, d, Len(path))

removeExtension(filename) ==
    LET base == Base(filename)
    IN  SubSeq(base, 1, Len(base) - Len(Ext(base)))

RECURSIVE removeExtensionsLoop(_, _)
removeExtensionsLoop(f1, f2) ==
    IF f1 # f2 THEN removeExtensionsLoop(f2, removeExtension(f2)) ELSE f2

\* Faulty removeExtensions: the loop is never entered.
removeExtensionsOnce(filename) == removeExtension(filename)

removeExtensions(filename) ==
    removeExtensionsLoop(filename, removeExtension(filename))

\* ------------------------------------------------------------------------
\* Indentation and directives (the same code in both versions)
\* ------------------------------------------------------------------------

\* Faulty unindent: the four spaces that follow a tab are removed with it.
unindentTabAndSpaces(line) ==
    IF HasPrefix(line, <<TAB, SP, SP, SP, SP>>)
    THEN [line |-> SubSeq(line, 6, Len(line)), ok |-> TRUE]
    ELSE IF HasPrefix(line, <<TAB>>)
    THEN [line |-> SubSeq(line, 2, Len(line)), ok |-> TRUE]
    ELSE IF HasPrefix(line, <<SP, SP, SP, SP>>)
    THEN [line |-> SubSeq(line, 5, Len(line)), ok |-> TRUE]
    ELSE [line |-> line, ok |-> FALSE]

unindent(line) ==
    IF HasPrefix(line, <<TAB>>)
    THEN [line |-> SubSeq(line, 2, Len(line)), ok |-> TRUE]
    ELSE IF HasPrefix(line, <<SP, SP, SP, SP>>)
    THEN [line |-> SubSeq(line, 5, Len(line)), ok |-> TRUE]
    ELSE [line |-> line, ok |-> FALSE]

\* rxDirective = "^<<(.*)>>\s*$".  The trailing \s* runs to the end of the
\* string, so the closing >> are the last two characters that are not white
\* space; the group is what lies between the opening << and that >>, and it
\* matches only when it holds no newline ('.' does not match one).
rxDirective(line) ==
    LET t == TrimRight(line)
        group == SubSeq(t, 3, Len(t) - 2)
    IN  IF /\ Len(t) >= 4
           /\ SubSeq(t, 1, 2) = <<"<", "<">>
           /\ SubSeq(t, Len(t) - 1, Len(t)) = <<">", ">">>
           /\ \A i \in 1..Len(group) : group[i] # NL
        THEN [matches |-> TRUE, group |-> group]
        ELSE [matches |-> FALSE, group |-> << >>]

\* Faulty parseDirective: the payload keeps the white space around it.
parseDirectiveUntrimmed(line) ==
    LET u == unindent(line)
    IN  IF ~u.ok THEN [directive |-> << >>, ok |-> FALSE]
        ELSE LET m == rxDirective(u.line)
             IN  IF ~m.matches THEN [directive |-> << >>, ok |-> FALSE]
                 ELSE [directive |-> m.group, ok |-> TRUE]

parseDirective(line) ==
    LET u == unindent(line)
    IN  IF ~u.ok THEN [directive |-> << >>, ok |-> FALSE]
        ELSE LET m == rxDirective(u.line)
             IN  IF ~m.matches THEN [directive |-> << >>, ok |-> FALSE]
                 ELSE [directive |-> TrimSpace(m.group), ok |-> TRUE]

\* strings.TrimSpace(line) == ""
isBlankLine(line) == TrimSpace(line) = << >>

\* The payloads of the two directives that are not file names.
ExampleDirective == <<"!", "-", "-">>
BoilerplateDirective == <<"#", "-", "-">>

\* ------------------------------------------------------------------------
\* Records
\* ------------------------------------------------------------------------

\* Faulty Line: a record with a code target keeps its text and loses its
\* text target.
LineTextUntargeted(code, codeTarget, text, textTarget) ==
    [Code |-> code, CodeTarget |-> codeTarget, Text |-> text,
     TextTarget |-> IF codeTarget # << >> THEN << >> ELSE textTarget]

Line(code, codeTarget, text, textTarget) ==
    [Code |-> code, CodeTarget |-> codeTarget,
     Text |-> text, TextTarget |-> textTarget]

StateData(defaultCodeOutput, defaultTextOutput, currentTarget) ==
    [DefaultCodeOutput |-> defaultCodeOutput,
     DefaultTextOutput |-> defaultTextOutput,
     CurrentTarget |-> currentTarget]

\* ------------------------------------------------------------------------
\* The closure version.  A BoundState is a state function together with the
\* StateData value it was bound to; calling it gives the next BoundState and
\* the records it sent on data.Output.
\* ------------------------------------------------------------------------

partialState(s, data) == [s |-> s, data |-> data]

\* Faulty stateCode: the line that ends the code block starts an example.
stateCodeEndsInExample(data, inputLine) ==
    LET u == unindent(inputLine)
    IN  IF u.ok \/ isBlankLine(inputLine)
        THEN [sent |-> <<Line(u.line, data.CurrentTarget,
                              inputLine, data.DefaultTextOutput)>>,
              next |-> partialState("stateCode", data)]
        ELSE [sent |-> <<Line(<< >>, << >>,
                              inputLine, data.DefaultTextOutput)>>,
              next |-> partialState("stateExample", data)]

\* Faulty stateCode: a blank line that is not indented ends the code block.
stateCodeBlankEndsRun(data, inputLine) ==
    LET u == unindent(inputLine)
    IN  IF u.ok
        THEN [sent |-> <<Line(u.line, data.CurrentTarget,
                              inputLine, data.DefaultTextOutput)>>,
              next |-> partialState("stateCode", data)]
        ELSE [sent |-> <<Line(<< >>, << >>,
                              inputLine, data.DefaultTextOutput)>>,
              next |-> partialState("stateText", data)]

\* Faulty stateCode: the documentation gets the line without its indent.
stateCodeTextUnindented(data, inputLine) ==
    LET u == unindent(inputLine)
    IN  IF u.ok \/ isBlankLine(inputLine)
        THEN [sent |-> <<Line(u.line, data.CurrentTarget,
                              u.line, data.DefaultTextOutput)>>,
              next |-> partialState("stateCode", data)]
        ELSE [sent |-> <<Line(<< >>, << >>,
                              inputLine, data.DefaultTextOutput)>>,
              next |-> partialState("stateText", data)]

stateCode(data, inputLine) ==
    LET u == unindent(inputLine)
    IN  IF u.ok \/ isBlankLine(inputLine)
        THEN [sent |-> <<Line(u.line, data.CurrentTarget,
                              inputLine, data.DefaultTextOutput)>>,
              next |-> partialState("stateCode", data)]
        ELSE [sent |-> <<Line(<< >>, << >>,
                              inputLine, data.DefaultTextOutput)>>,
              next |-> partialState("stateText", data)]

\* Faulty stateBoilerplate: a line of the run is sent twice, as code and as
\* text.
stateBoilerplateSendsTwo(data, inputLine) ==
    LET u == unindent(inputLine)
    IN  IF u.ok \/ isBlankLine(inputLine)
        THEN [sent |-> <<Line(u.line, data.CurrentTarget, << >>, << >>),
                         Line(<< >>, << >>,
                              inputLine, data.DefaultTextOutput)>>,
              next |-> partialState("stateBoilerplate", data)]
        ELSE [sent |-> <<Line(<< >>, << >>,
                              inputLine, data.DefaultTextOutput)>>,
              next |-> partialState("stateText", data)]

\* Faulty stateBoilerplate: the boilerplate is sent to the documentation too.
stateBoilerplateDocumented(data, inputLine) ==
    LET u == unindent(inputLine)
    IN  IF u.ok \/ isBlankLine(inputLine)
        THEN [sent |-> <<Line(u.line, data.CurrentTarget,
                              inputLine, data.DefaultTextOutput)>>,
              next |-> partialState("stateBoilerplate", data)]
        ELSE [sent |-> <<Line(<< >>, << >>,
                              inputLine, data.DefaultTextOutput)>>,
              next |-> partialState("stateText", data)]

stateBoilerplate(data, inputLine) ==
    LET u == unindent(inputLine)
    IN  IF u.ok \/ isBlankLine(inputLine)
        THEN [sent |-> <<Line(u.line, data.CurrentTarget, << >>, << >>)>>,
              next |-> partialState("stateBoilerplate", data)]
        ELSE [sent |-> <<Line(<< >>, << >>,
                              inputLine, data.DefaultTextOutput)>>,
              next |-> partialState("stateText", data)]

\* Faulty stateExample: no line ends the example.
stateExampleNeverEnds(data, inputLine) ==
    [sent |-> <<Line(<< >>, << >>, inputLine, data.DefaultTextOutput)>>,
     next |-> partialState("stateExample", data)]

stateExample(data, inputLine) ==
    LET u == unindent(inputLine)
    IN  IF u.ok \/ isBlankLine(inputLine)
        THEN [sent |-> <<Line(<< >>, << >>,
                              inputLine, data.DefaultTextOutput)>>,
              next |-> partialState("stateExample", data)]
        ELSE [sent |-> <<Line(<< >>, << >>,
                              inputLine, data.DefaultTextOutput)>>,
              next |-> partialState("stateText", data)]

\* Faulty stateText: an indented line is sent as code and the mode stays
\* Text.
stateTextStaysText(data, inputLine) ==
    LET u == unindent(inputLine)
    IN  IF u.ok
        THEN [sent |-> <<Line(u.line, data.CurrentTarget,
                              inputLine, data.DefaultTextOutput)>>,
              next |-> partialState("stateText", data)]
        ELSE [sent |-> <<Line(<< >>, << >>,
                              inputLine, data.DefaultTextOutput)>>,
              next |-> partialState("stateText", data)]

\* Faulty stateText: a new code block starts on the default code target.
stateTextResetsTarget(data, inputLine) ==
    LET u == unindent(inputLine)
        reset == [data EXCEPT !.CurrentTarget = data.DefaultCodeOutput]
    IN  IF u.ok
        THEN [sent |-> <<Line(u.line, reset.CurrentTarget,
                              inputLine, data.DefaultTextOutput)>>,
              next |-> partialState("stateCode", reset)]
        ELSE [sent |-> <<Line(<< >>, << >>,
                              inputLine, data.DefaultTextOutput)>>,
              next |-> partialState("stateText", data)]

stateText(data, inputLine) ==
    LET u == unindent(inputLine)
    IN  IF u.ok
        THEN [sent |-> <<Line(u.line, data.CurrentTarget,
                              inputLine, data.DefaultTextOutput)>>,
              next |-> partialState("stateCode", data)]
        ELSE [sent |-> <<Line(<< >>, << >>,
                              inputLine, data.DefaultTextOutput)>>,
              next |-> partialState("stateText", data)]

\* Faulty processDirective: the directive !-- sets the current target back
\* to the default.
processDirectiveExampleResets(data, directive) ==
    IF directive = ExampleDirective
    THEN [sent |-> << >>,
          next |-> partialState("stateExample",
                                [data EXCEPT
                                    !.CurrentTarget = data.DefaultCodeOutput])]
    ELSE IF directive = BoilerplateDirective
    THEN [sent |-> << >>, next |-> partialState("stateBoilerplate", data)]
    ELSE LET target == IF directive = << >> THEN data.DefaultCodeOutput
                       ELSE directive
             changed == [data EXCEPT !.CurrentTarget = target]
         IN  [sent |-> << >>, next |-> partialState("stateCode", changed)]

\* Faulty processDirective: the empty directive is taken as a file name.
processDirectiveNoDefault(data, directive) ==
    IF directive = ExampleDirective
    THEN [sent |-> << >>, next |-> partialState("stateExample", data)]
    ELSE IF directive = BoilerplateDirective
    THEN [sent |-> << >>, next |-> partialState("stateBoilerplate", data)]
    ELSE [sent |-> << >>,
          next |-> partialState("stateCode",
                                [data EXCEPT !.CurrentTarget = directive])]

processDirective(data, directive) ==
    IF directive = ExampleDirective
    THEN [sent |-> << >>, next |-> partialState("stateExample", data)]
    ELSE IF directive = BoilerplateDirective
    THEN [sent |-> << >>, next |-> partialState("stateBoilerplate", data)]
    ELSE LET target == IF directive = << >> THEN data.DefaultCodeOutput
                       ELSE directive
             changed == [data EXCEPT !.CurrentTarget = target]
         IN  [sent |-> << >>, next |-> partialState("stateCode", changed)]

\* Faulty BoundState: the state function is called without looking for a
\* directive first.
BoundStateNoDirective(bound, inputLine) ==
    IF bound.s = "stateCode" THEN stateCode(bound.data, inputLine)
    ELSE IF bound.s = "stateBoilerplate"
    THEN stateBoilerplate(bound.data, inputLine)
    ELSE IF bound.s = "stateExample"
    THEN stateExample(bound.data, inputLine)
    ELSE stateText(bound.data, inputLine)

\* Calling the BoundState bound: the closure returned by partialState.
BoundState(bound, inputLine) ==
    LET d == parseDirective(inputLine)
    IN  IF d.ok THEN processDirective(bound.data, d.directive)
        ELSE IF bound.s = "stateCode" THEN stateCode(bound.data, inputLine)
        ELSE IF bound.s = "stateBoilerplate"
        THEN stateBoilerplate(bound.data, inputLine)
        ELSE IF bound.s = "stateExample"
        THEN stateExample(bound.data, inputLine)
        ELSE stateText(bound.data, inputLine)

\* ------------------------------------------------------------------------
\* The enum version.  g holds the package variables state, currentTarget,
\* defaultCodeOutput and defaultTextOutput; the result holds the records
\* sent on the channel and the new values of the variables written.
\* ------------------------------------------------------------------------

\* Faulty processDirective: the empty directive is taken as a file name.
enumProcessDirectiveNoDefault(g, directive) ==
    IF directive = ExampleDirective
    THEN [sent |-> << >>, state |-> "Example",
          currentTarget |-> g.currentTarget]
    ELSE IF directive = BoilerplateDirective
    THEN [sent |-> << >>, state |-> "Boilerplate",
          currentTarget |-> g.currentTarget]
    ELSE [sent |-> << >>, state |-> "Code", currentTarget |-> directive]

\* Faulty processDirective: a target directive leaves the state as it is.
enumProcessDirectiveKeepsState(g, directive) ==
    IF directive = ExampleDirective
    THEN [sent |-> << >>, state |-> "Example",
          currentTarget |-> g.currentTarget]
    ELSE IF directive = BoilerplateDirective
    THEN [sent |-> << >>, state |-> "Boilerplate",
          currentTarget |-> g.currentTarget]
    ELSE [sent |-> << >>, state |-> g.state,
          currentTarget |-> IF directive = << >> THEN g.defaultCodeOutput
                            ELSE directive]

enumProcessDirective(g, directive) ==
    IF directive = ExampleDirective
    THEN [sent |-> << >>, state |-> "Example",
          currentTarget |-> g.currentTarget]
    ELSE IF directive = BoilerplateDirective
    THEN [sent |-> << >>, state |-> "Boilerplate",
          currentTarget |-> g.currentTarget]
    ELSE [sent |-> << >>, state |-> "Code",
          currentTarget |-> IF directive = << >> THEN g.defaultCodeOutput
                            ELSE directive]

\* Faulty processLine: the lines of an example are sent to the code target.
enumProcessLineExampleAsCode(g, line) ==
    LET d == parseDirective(line)
        u == unindent(line)
        isCode == u.ok
        isBlank == isBlankLine(line)
        both == Line(u.line, g.currentTarget, line, g.defaultTextOutput)
        codeOnly == Line(u.line, g.currentTarget, << >>, << >>)
        textOnly == Line(<< >>, << >>, line, g.defaultTextOutput)
        stay(rec) == [sent |-> <<rec>>, state |-> g.state,
                      currentTarget |-> g.currentTarget]
        move(rec, to) == [sent |-> <<rec>>, state |-> to,
                          currentTarget |-> g.currentTarget]
    IN  IF d.ok THEN enumProcessDirective(g, d.directive)
        ELSE IF g.state = "Code"
        THEN IF isCode \/ isBlank THEN stay(both) ELSE move(textOnly, "Text")
        ELSE IF g.state = "Boilerplate"
        THEN IF isCode \/ isBlank THEN stay(codeOnly)
             ELSE move(textOnly, "Text")
        ELSE IF g.state = "Example"
        THEN IF isCode \/ isBlank THEN stay(both)
             ELSE move(textOnly, "Text")
        ELSE IF isCode THEN move(both, "Code") ELSE stay(textOnly)

enumProcessLine(g, line) ==
    LET d == parseDirective(line)
        u == unindent(line)
        isCode == u.ok
        isBlank == isBlankLine(line)
        both == Line(u.line, g.currentTarget, line, g.defaultTextOutput)
        codeOnly == Line(u.line, g.currentTarget, << >>, << >>)
        textOnly == Line(<< >>, << >>, line, g.defaultTextOutput)
        stay(rec) == [sent |-> <<rec>>, state |-> g.state,
                      currentTarget |-> g.currentTarget]
        move(rec, to) == [sent |-> <<rec>>, state |-> to,
                          currentTarget |-> g.currentTarget]
    IN  IF d.ok THEN enumProcessDirective(g, d.directive)
        ELSE IF g.state = "Code"
        THEN IF isCode \/ isBlank THEN stay(both) ELSE move(textOnly, "Text")
        ELSE IF g.state = "Boilerplate"
        THEN IF isCode \/ isBlank THEN stay(codeOnly)
             ELSE move(textOnly, "Text")
        ELSE IF g.state = "Example"
        THEN IF isCode \/ isBlank THEN stay(textOnly)
             ELSE move(textOnly, "Text")
        ELSE IF isCode THEN move(both, "Code") ELSE stay(textOnly)

\* ------------------------------------------------------------------------
\* Inputs
\* ------------------------------------------------------------------------

\* The lines a document is made of, without their terminator.
Lines ==
    { << >>,                                      \* empty line
      <<SP, SP, SP, SP>>,                         \* blank, indented
      <<"x">>,                                    \* prose
      <<TAB, "x">>,                               \* code
      <<TAB>> \o Directive(<<"a">>),              \* target directive
      <<SP, SP, SP, SP>> \o Directive(<<"b">>),   \* target directive
      <<TAB>> \o Directive(<< >>),                \* empty directive
      <<TAB>> \o Directive(<<SP>>),               \* payload of white space
      <<TAB>> \o Directive(ExampleDirective),
      <<TAB>> \o Directive(BoilerplateDirective) }

\* The names of the documents.
Filenames == { <<"f", ".", "c", ".", "m", "d">> }

\* ------------------------------------------------------------------------
\* State
\* ------------------------------------------------------------------------

VARIABLES
    variant,            \* which version of the package runs: "closure", "enum"
    filename,           \* the document ProcessFile was called with
    pc,                 \* "start", "scan", "read", "closed", "failed"
    doc,                \* the lines of the document read so far
    terminated,         \* the document ended with a line terminator
    fed,                \* the strings handed to the classifier so far
    lines,              \* the records received from the channel so far
    currentState,       \* closure version: the BoundState of ProcessFile
    state,              \* enum version: package variable state
    currentTarget,      \* enum version: package variable currentTarget
    defaultCodeOutput,  \* enum version: package variable defaultCodeOutput
    defaultTextOutput,  \* enum version: package variable defaultTextOutput
    sending,            \* the record the goroutine is blocked sending, if any
    other,              \* a second ProcessFile call running at the same time
    arg,                \* the argument of a function studied on its own
    ret,                \* what that function has computed so far
    run,                \* the call of ProcessFiles (or of a front end's main)
    outputFiles,        \* the keys of the map outputFiles
    disk,               \* per path: how often created, what was written
    isBoilerplate,      \* flag version: package variable isBoilerplate
    isExample,          \* flag version: package variable isExample
    writingCode,        \* flag version: package variable writingCode
    targetCodeFile,     \* flag version: package variable targetCodeFile
    targetTextFile      \* flag version: package variable targetTextFile

vars == <<variant, filename, pc, doc, terminated, fed, lines, currentState,
          state, currentTarget, defaultCodeOutput, defaultTextOutput,
          sending, other, arg, ret, run, outputFiles, disk,
          isBoilerplate, isExample, writingCode, targetCodeFile,
          targetTextFile>>

runVars == <<run, outputFiles, disk>>
flagVars == <<isBoilerplate, isExample, writingCode, targetCodeFile,
              targetTextFile>>

\* The variables that only the specifications further down use.
auxVars == <<sending, other, arg, ret, runVars, flagVars>>

closureVars == <<currentState>>
enumVars == <<state, currentTarget, defaultCodeOutput, defaultTextOutput>>

MD == <<".", "m", "d">>

\* No call of ProcessFile has been made.
NotStarted ==
    /\ variant = "none"
    /\ filename = << >>
    /\ pc = "start"
    /\ doc = << >>
    /\ terminated = FALSE
    /\ fed = << >>
    /\ lines = << >>
    /\ currentState = partialState("none", StateData(<< >>, << >>, << >>))
    /\ state = "Text"
    /\ currentTarget = << >>
    /\ defaultCodeOutput = << >>
    /\ defaultTextOutput = << >>
    /\ sending = << >>
    /\ other = [pc |-> "none", filename |-> << >>, doc |-> << >>,
                fed |-> << >>, lines |-> << >>,
                currentState |->
                    partialState("none", StateData(<< >>, << >>, << >>))]
    /\ run = [pc |-> "none"]
    /\ outputFiles = {}
    /\ disk = [p \in {} |-> 0]
    /\ isBoilerplate = FALSE
    /\ isExample = FALSE
    /\ writingCode = FALSE
    /\ targetCodeFile = << >>
    /\ targetTextFile = << >>

Init ==
    /\ NotStarted
    /\ arg = << >>
    /\ ret = [pc |-> "none"]

\* ------------------------------------------------------------------------
\* The closure version: ProcessFile and its goroutine
\* ------------------------------------------------------------------------

\* Faulty ProcessFile: the default text target is the name of the document
\* without its last extension only, plus .md.
ProcessFileOneExtension(f, opened) ==
    /\ pc = "start"
    /\ variant' = "closure"
    /\ filename' = f
    /\ currentState' =
           partialState("stateText",
                        StateData(removeExtension(f),
                                  removeExtension(f) \o MD,
                                  removeExtension(f)))
    /\ pc' = IF opened THEN "scan" ELSE "failed"
    /\ UNCHANGED <<doc, terminated, fed, lines>>
    /\ UNCHANGED enumVars
    /\ UNCHANGED auxVars

\* ProcessFile up to the start of the goroutine; opened is the outcome of
\* os.Open.
ProcessFile(f, opened) ==
    /\ pc = "start"
    /\ variant' = "closure"
    /\ filename' = f
    /\ currentState' =
           partialState("stateText",
                        StateData(removeExtension(f),
                                  removeExtensions(f) \o MD,
                                  removeExtension(f)))
    /\ pc' = IF opened THEN "scan" ELSE "failed"
    /\ UNCHANGED <<doc, terminated, fed, lines>>
    /\ UNCHANGED enumVars
    /\ UNCHANGED auxVars

\* One turn of the loop: scanner.Scan() gives the line l, the current
\* BoundState is called with it, and the record it sends is received.
Scan(l) ==
    /\ pc = "scan"
    /\ Len(doc) < MaxLines
    /\ LET r == BoundState(currentState, l)
       IN  /\ currentState' = r.next
           /\ lines' = lines \o r.sent
    /\ doc' = Append(doc, l)
    /\ fed' = Append(fed, l)
    /\ UNCHANGED <<variant, filename, pc, terminated>>
    /\ UNCHANGED enumVars
    /\ UNCHANGED auxVars

\* scanner.Scan() returns false at the end of the input; the deferred
\* close(data.Output) runs.  nl tells whether the input ended with a line
\* terminator: an input that does not has a last line that is not empty.
ScanEnd(nl) ==
    /\ pc = "scan"
    /\ IF doc = << >> THEN ~nl ELSE (nl \/ doc[Len(doc)] # << >>)
    /\ terminated' = nl
    /\ pc' = "closed"
    /\ UNCHANGED <<variant, filename, doc, fed, lines>>
    /\ UNCHANGED closureVars
    /\ UNCHANGED enumVars
    /\ UNCHANGED auxVars

\* ------------------------------------------------------------------------
\* The enum version: ProcessFile and its goroutine
\* ------------------------------------------------------------------------

\* ProcessFile up to the start of the goroutine.  The package variables are
\* assigned before os.Open is tried.
EnumProcessFile(f, opened) ==
    /\ pc = "start"
    /\ variant' = "enum"
    /\ filename' = f
    /\ defaultCodeOutput' = removeExtension(f)
    /\ defaultTextOutput' = removeExtensions(f) \o MD
    /\ currentTarget' = removeExtension(f)
    /\ pc' = IF opened THEN "read" ELSE "failed"
    /\ UNCHANGED <<state, doc, terminated, fed, lines>>
    /\ UNCHANGED closureVars
    /\ UNCHANGED auxVars

\* processLine(line, out) on the package variables.
EnumCall(line) ==
    LET r == enumProcessLine([state |-> state,
                              currentTarget |-> currentTarget,
                              defaultCodeOutput |-> defaultCodeOutput,
                              defaultTextOutput |-> defaultTextOutput], line)
    IN  /\ state' = r.state
        /\ currentTarget' = r.currentTarget
        /\ lines' = lines \o r.sent
        /\ fed' = Append(fed, line)
        /\ UNCHANGED <<defaultCodeOutput, defaultTextOutput>>

\* One turn of the loop with err == nil: ReadString gives the line l with
\* its terminator.
ReadLine(l) ==
    /\ pc = "read"
    /\ Len(doc) < MaxLines
    /\ EnumCall(l \o <<NL>>)
    /\ doc' = Append(doc, l)
    /\ UNCHANGED <<variant, filename, pc, terminated>>
    /\ UNCHANGED closureVars
    /\ UNCHANGED auxVars

\* The last turn of the loop, err == io.EOF: ReadString gives what is left
\* of the input, l, which is empty when the input ended with a terminator
\* (or is empty); processLine is called with it, the loop ends and the
\* deferred close(out) runs.
ReadEOF(l) ==
    /\ pc = "read"
    /\ l # << >> => Len(doc) < MaxLines
    /\ EnumCall(l)
    /\ doc' = IF l = << >> THEN doc ELSE Append(doc, l)
    /\ terminated' = (l = << >> /\ doc # << >>)
    /\ pc' = "closed"
    /\ UNCHANGED <<variant, filename>>
    /\ UNCHANGED closureVars
    /\ UNCHANGED auxVars

Next ==
    \/ \E f \in Filenames, opened \in BOOLEAN : ProcessFile(f, opened)
    \/ \E l \in Lines : Scan(l)
    \/ \E nl \in BOOLEAN : ScanEnd(nl)
    \/ \E f \in Filenames, opened \in BOOLEAN : EnumProcessFile(f, opened)
    \/ \E l \in Lines : ReadLine(l)
    \/ \E l \in Lines : ReadEOF(l)

Spec == Init /\ [][Next]_vars

\* ------------------------------------------------------------------------
\* Vocabulary of the properties
\* ------------------------------------------------------------------------

Last(s) == s[Len(s)]

\* The mode of the classifier that runs.
Mode ==
    IF variant = "closure"
    THEN CASE currentState.s = "stateCode" -> "Code"
           [] currentState.s = "stateBoilerplate" -> "Boilerplate"
           [] currentState.s = "stateExample" -> "Example"
           [] OTHER -> "Text"
    ELSE state

\* The current code target of the classifier that runs.
CurrentTarget ==
    IF variant = "closure" THEN currentState.data.CurrentTarget
    ELSE currentTarget

\* The default targets, from the name of the document.
DefaultCodeTarget == removeExtension(filename)
DefaultTextTarget == removeExtensions(filename) \o MD

\* A line that starts with a tab or with four spaces.
Indented(l) ==
    \/ (Len(l) >= 1 /\ l[1] = TAB)
    \/ (Len(l) >= 4 /\ \A i \in 1..4 : l[i] = SP)

\* A line of white space only.
Blank(l) == \A i \in 1..Len(l) : l[i] \in {SP, TAB, NL}

\* The line without its one indent.
StripIndent(l) ==
    IF Len(l) >= 1 /\ l[1] = TAB THEN SubSeq(l, 2, Len(l))
    ELSE IF Indented(l) THEN SubSeq(l, 5, Len(l))
    ELSE l

IsDirectiveLine(l) == parseDirective(l).ok

\* A directive line whose payload is neither !-- nor #--.
IsTargetLine(l) ==
    /\ parseDirective(l).ok
    /\ parseDirective(l).directive \notin
           {ExampleDirective, BoilerplateDirective}

\* The positions of the target directives of the history h.
TargetIdx(h) == {i \in 1..Len(h) : IsTargetLine(h[i])}

\* The payload of the last target directive of h (TargetIdx(h) # {}).
LastTarget(h) ==
    LET i == CHOOSE i \in TargetIdx(h) : \A j \in TargetIdx(h) : j <= i
    IN  parseDirective(h[i]).directive

\* After the history h the input is in a run opened by the directive with
\* this payload: every line since is indented or blank and no directive.
InRun(payload, h) ==
    \E i \in 1..Len(h) :
        /\ parseDirective(h[i]).ok
        /\ parseDirective(h[i]).directive = payload
        /\ \A j \in (i + 1)..Len(h) :
               /\ ~IsDirectiveLine(h[j])
               /\ Indented(h[j]) \/ Blank(h[j])

\* A string was handed to the classifier in this step.
Stepped == fed' # fed

\* The records received in this step.
Emitted == SubSeq(lines', Len(lines) + 1, Len(lines'))

TextOnly(l) == Line(<< >>, << >>, l, DefaultTextTarget)

NumDirectives(h) == Cardinality({i \in 1..Len(h) : IsDirectiveLine(h[i])})

RECURSIVE TextsOf(_)
\* The Text fields of the records routed to the documentation, in order.
TextsOf(recs) ==
    IF recs = << >> THEN << >>
    ELSE (IF Head(recs).TextTarget # << >> THEN <<Head(recs).Text>>
          ELSE << >>) \o TextsOf(Tail(recs))

TextStream == TextsOf(lines)

\* ------------------------------------------------------------------------
\* Properties
\* ------------------------------------------------------------------------

\* C1: in both versions and in every mode, the step that handles a line the
\* directive parser recognises as a directive delivers no record.
DirectiveEmitsNothing ==
    [][(Stepped /\ IsDirectiveLine(Last(fed'))) => lines' = lines]_vars

\* A directive was handled after records had been delivered, and the records
\* are fewer than the lines.
DirectiveEmitsNothingWitness ==
    /\ Len(fed) >= 3
    /\ IsDirectiveLine(fed[Len(fed)])
    /\ ~IsDirectiveLine(fed[Len(fed) - 1])
    /\ Len(lines) >= 1
    /\ Len(lines) < Len(fed)

\* C2: when the channel is closed, the number of records delivered is the
\* number of lines of the document minus the number of its directive lines,
\* whether or not the document ends with a line terminator.
RecordCount ==
    pc = "closed" => Len(lines) = Len(doc) - NumDirectives(doc)

\* C3: after a target directive with a payload P that is not empty, every
\* record delivered later with a code target has the code target P, until
\* the next target directive; text paragraphs and the directives <<!-->>
\* and <<#-->> in between change nothing.
TargetPersists ==
    [][(Stepped /\ TargetIdx(fed) # {} /\ LastTarget(fed) # << >>)
         => \A i \in 1..Len(Emitted) :
                Emitted[i].CodeTarget # << >>
                    => Emitted[i].CodeTarget = LastTarget(fed)]_vars

\* A target directive, later a line of prose and an <<#-->> or <<!-->>
\* directive, and now a record delivered with the target of the directive.
TargetPersistsWitness ==
    /\ Len(fed) >= 4
    /\ IsTargetLine(fed[1])
    /\ TargetIdx(fed) = {1}
    /\ LastTarget(fed) \notin {<< >>, DefaultCodeTarget}
    /\ \E j \in 2..(Len(fed) - 1) : ~Indented(fed[j]) /\ ~Blank(fed[j])
    /\ \E j \in 2..(Len(fed) - 1) :
           IsDirectiveLine(fed[j]) /\ ~IsTargetLine(fed[j])
    /\ ~IsDirectiveLine(Last(fed))
    /\ lines # << >>
    /\ Last(lines).CodeTarget = LastTarget(fed)

\* C4: handling an empty directive leaves the current target equal to the
\* default code target of the document, and a record delivered with a code
\* target while the last target directive is an empty one has the default
\* code target.
EmptyDirectiveResets ==
    [][Stepped =>
         /\ (IsTargetLine(Last(fed'))
               /\ parseDirective(Last(fed')).directive = << >>)
              => CurrentTarget' = DefaultCodeTarget
         /\ (TargetIdx(fed) # {} /\ LastTarget(fed) = << >>)
              => \A i \in 1..Len(Emitted) :
                     Emitted[i].CodeTarget # << >>
                         => Emitted[i].CodeTarget = DefaultCodeTarget]_vars

\* A target directive naming another file, then an empty directive, and now
\* a record delivered with the default code target.
EmptyDirectiveResetsWitness ==
    /\ Len(fed) >= 3
    /\ \E i \in TargetIdx(fed) :
           /\ parseDirective(fed[i]).directive
                  \notin {<< >>, DefaultCodeTarget}
           /\ \E j \in TargetIdx(fed) : j > i
    /\ LastTarget(fed) = << >>
    /\ ~IsDirectiveLine(Last(fed))
    /\ Last(lines).CodeTarget = DefaultCodeTarget
    /\ CurrentTarget = DefaultCodeTarget

\* C5: from every mode a line that is neither indented nor blank leaves the
\* classifier in mode Text with a text-only record delivered, and the mode
\* goes from Code, Boilerplate or Example to Text only on such a line.
ProseForcesText ==
    [][Stepped =>
         LET l == Last(fed')
         IN  /\ (~Indented(l) /\ ~Blank(l))
                  => /\ Mode' = "Text"
                     /\ lines' = Append(lines, TextOnly(l))
             /\ (Mode \in {"Code", "Boilerplate", "Example"}
                   /\ Mode' = "Text")
                  => (~Indented(l) /\ ~Blank(l))]_vars

\* A run of example lines was ended by a line of prose.
ProseForcesTextWitness ==
    /\ Len(fed) >= 3
    /\ InRun(ExampleDirective, SubSeq(fed, 1, Len(fed) - 1))
    /\ ~IsDirectiveLine(fed[Len(fed) - 1])
    /\ ~Indented(Last(fed)) /\ ~Blank(Last(fed))
    /\ Mode = "Text"
    /\ Last(lines) = TextOnly(Last(fed))

\* The record of a line l of a run, by the mode of the run.
RunRecord(mode, target, l) ==
    CASE mode = "Code" -> Line(StripIndent(l), target, l, DefaultTextTarget)
      [] mode = "Boilerplate" -> Line(StripIndent(l), target, << >>, << >>)
      [] mode = "Example" -> TextOnly(l)

\* C6: in modes Code, Boilerplate and Example a blank line keeps the mode
\* and is delivered with the routing of the mode.
BlankKeepsRun ==
    [][(Stepped /\ Blank(Last(fed'))
          /\ Mode \in {"Code", "Boilerplate", "Example"})
         => /\ Mode' = Mode
            /\ lines' = Append(lines,
                               RunRecord(Mode, CurrentTarget, Last(fed')))]_vars

\* A blank line that is not indented was handled in mode Code, between two
\* lines of code.
BlankKeepsRunWitness ==
    /\ Len(fed) >= 3
    /\ Len(lines) >= 3
    /\ Mode = "Code"
    /\ \A j \in (Len(fed) - 2)..Len(fed) : ~IsDirectiveLine(fed[j])
    /\ Indented(fed[Len(fed) - 2]) /\ ~Blank(fed[Len(fed) - 2])
    /\ Blank(fed[Len(fed) - 1]) /\ ~Indented(fed[Len(fed) - 1])
    /\ Indented(Last(fed)) /\ ~Blank(Last(fed))
    /\ lines[Len(lines) - 1].CodeTarget = CurrentTarget
    /\ lines[Len(lines) - 1].TextTarget = DefaultTextTarget

\* C7: after an <<#-->> directive, every indented or blank line, up to the
\* next directive or the next line that is neither, is delivered as a
\* code-only record.
BoilerplateIsCodeOnly ==
    [][(Stepped /\ InRun(BoilerplateDirective, fed)
          /\ ~IsDirectiveLine(Last(fed'))
          /\ (Indented(Last(fed')) \/ Blank(Last(fed'))))
         => lines' = Append(lines,
                            Line(StripIndent(Last(fed')), CurrentTarget,
                                 << >>, << >>))]_vars

\* An <<#-->> directive followed by an indented line, a blank line and
\* another indented line: three code-only records.
BoilerplateIsCodeOnlyWitness ==
    /\ Len(fed) >= 4
    /\ Len(lines) >= 3
    /\ InRun(BoilerplateDirective, fed)
    /\ parseDirective(fed[Len(fed) - 3]).directive = BoilerplateDirective
    /\ Indented(fed[Len(fed) - 2]) /\ ~Blank(fed[Len(fed) - 2])
    /\ Blank(fed[Len(fed) - 1]) /\ ~Indented(fed[Len(fed) - 1])
    /\ Indented(Last(fed)) /\ ~Blank(Last(fed))
    /\ \A k \in (Len(lines) - 2)..Len(lines) :
           /\ lines[k].TextTarget = << >>
           /\ lines[k].Text = << >>
           /\ lines[k].CodeTarget = CurrentTarget

\* C8: after an <<!-->> directive, every indented or blank line, up to the
\* next directive or the next line that is neither, is delivered as a
\* text-only record holding the raw line.
ExampleIsTextOnly ==
    [][(Stepped /\ InRun(ExampleDirective, fed)
          /\ ~IsDirectiveLine(Last(fed'))
          /\ (Indented(Last(fed')) \/ Blank(Last(fed'))))
         => lines' = Append(lines, TextOnly(Last(fed')))]_vars

\* An <<!-->> directive followed by two indented lines: two text-only
\* records that keep the indent.
ExampleIsTextOnlyWitness ==
    /\ Len(fed) >= 3
    /\ Len(lines) >= 2
    /\ parseDirective(fed[Len(fed) - 2]).directive = ExampleDirective
    /\ InRun(ExampleDirective, fed)
    /\ \A j \in (Len(fed) - 1)..Len(fed) : Indented(fed[j]) /\ ~Blank(fed[j])
    /\ \A k \in 0..1 :
           lines[Len(lines) - k] = TextOnly(fed[Len(fed) - k])

\* C9: a directive whose payload is neither !-- nor #-- leaves the
\* classifier in mode Code, whatever the mode before, and an indented line
\* right after it is delivered to the code target and to the text target.
TargetDirectiveForcesCode ==
    [][Stepped =>
         /\ IsTargetLine(Last(fed')) => Mode' = "Code"
         /\ (fed # << >> /\ IsTargetLine(Last(fed))
               /\ ~IsDirectiveLine(Last(fed')) /\ Indented(Last(fed')))
              => lines' = Append(lines,
                                 Line(StripIndent(Last(fed')), CurrentTarget,
                                      Last(fed'), DefaultTextTarget))]_vars

\* A target directive inside a boilerplate run, and the indented line after
\* it delivered to both targets.
TargetDirectiveForcesCodeWitness ==
    /\ Len(fed) >= 4
    /\ InRun(BoilerplateDirective, SubSeq(fed, 1, Len(fed) - 2))
    /\ Len(fed) - 2 \notin TargetIdx(fed)
    /\ ~IsDirectiveLine(fed[Len(fed) - 2])
    /\ IsTargetLine(fed[Len(fed) - 1])
    /\ Indented(Last(fed)) /\ ~IsDirectiveLine(Last(fed))
    /\ Mode = "Code"
    /\ Last(lines).CodeTarget = CurrentTarget
    /\ Last(lines).TextTarget = DefaultTextTarget

RECURSIVE NonDirectives(_)
\* The history without its directive lines.
NonDirectives(h) ==
    IF h = << >> THEN << >>
    ELSE NonDirectives(SubSeq(h, 1, Len(h) - 1))
         \o (IF IsDirectiveLine(Last(h)) THEN << >> ELSE <<Last(h)>>)

\* The line h[j] belongs to a boilerplate run.
InBoilerplate(h, j) ==
    /\ InRun(BoilerplateDirective, SubSeq(h, 1, j - 1))
    /\ ~IsDirectiveLine(h[j])
    /\ Indented(h[j]) \/ Blank(h[j])

RECURSIVE Documented(_, _)
\* The lines h[1..n] without the directive lines and the boilerplate lines.
Documented(h, n) ==
    IF n = 0 THEN << >>
    ELSE Documented(h, n - 1)
         \o (IF IsDirectiveLine(h[n]) \/ InBoilerplate(h, n) THEN << >>
             ELSE <<h[n]>>)

MaxFileLines == 2

\* The documents that the pattern matches.
\* The name of the last one is an extension only: its default code target
\* is empty.
Files ==
    { <<"f", ".", "c", ".", "m", "d">>, <<"g", ".", "m", "d">>,
      <<".", "m", "d">> }

\* for _, file := range files: the channel of the document before is
\* closed and drained, and the loop goes on to the next document.  The
\* package variables of the enum version stay as that document left them.
ProcessFilesNext ==
    /\ pc = "closed"
    /\ pc' = "start"
    /\ doc' = << >>
    /\ terminated' = FALSE
    /\ fed' = << >>
    /\ lines' = << >>
    /\ UNCHANGED <<variant, filename>>
    /\ UNCHANGED closureVars
    /\ UNCHANGED enumVars
    /\ UNCHANGED auxVars

\* ProcessFiles of the closure version calls ProcessFile for the document.
FilesProcessFile(f) ==
    /\ variant \in {"none", "closure"}
    /\ ProcessFile(f, TRUE)

FilesScan(l) ==
    /\ Len(doc) < MaxFileLines
    /\ Scan(l)

FilesScanEnd(nl) == ScanEnd(nl)

\* ProcessFiles of the enum version calls ProcessFile for the document.
FilesEnumProcessFile(f) ==
    /\ variant \in {"none", "enum"}
    /\ EnumProcessFile(f, TRUE)

FilesReadLine(l) ==
    /\ Len(doc) < MaxFileLines
    /\ ReadLine(l)

FilesReadEOF(l) ==
    /\ Len(doc) < MaxFileLines \/ l = << >>
    /\ ReadEOF(l)

NextFiles ==
    \/ \E f \in Files : FilesProcessFile(f)
    \/ \E l \in Lines : FilesScan(l)
    \/ \E nl \in BOOLEAN : FilesScanEnd(nl)
    \/ \E f \in Files : FilesEnumProcessFile(f)
    \/ \E l \in Lines : FilesReadLine(l)
    \/ \E l \in Lines : FilesReadEOF(l)
    \/ ProcessFilesNext

SpecFiles == Init /\ [][NextFiles]_vars

\* C11: when the first line of a document is about to be handled, the mode
\* is Text and the current target is the default code target of that
\* document, whatever the document before it left.
FreshStatePerDocument ==
    (pc \in {"scan", "read"} /\ fed = << >>)
        => (Mode = "Text" /\ CurrentTarget = DefaultCodeTarget)

\* ------------------------------------------------------------------------
\* Two calls of ProcessFile whose goroutines run at the same time
\*
\* The first call is the one of Spec.  The second call has its own
\* channel, reader and local variables, held in the record other; in the
\* enum version it works on the same package variables as the first.  A
\* call of processLine is taken as one step, which is one of the schedules
\* of the two goroutines.

\* Largest number of lines of each of the two documents.
MaxTwoLines == 2

\* The lines of the two documents.
TwoLines ==
    { <<"x">>, <<TAB, "x">>, <<TAB>> \o Directive(<<"a">>),
      <<TAB>> \o Directive(ExampleDirective) }

TwoProcessFile(f) == ProcessFile(f, TRUE)

TwoScan(l) ==
    /\ Len(doc) < MaxTwoLines
    /\ Scan(l)

TwoScanEnd == ScanEnd(FALSE)

TwoEnumProcessFile(f) == EnumProcessFile(f, TRUE)

TwoReadLine(l) ==
    /\ Len(doc) < MaxTwoLines
    /\ ReadLine(l)

TwoReadEOF(l) ==
    /\ Len(doc) < MaxTwoLines
    /\ ReadEOF(l)

\* The second call of the closure version's ProcessFile, made while the
\* goroutine of the first still reads its document.
OtherProcessFile(f) ==
    /\ variant = "closure"
    /\ pc = "scan"
    /\ other.pc = "none"
    /\ other' = [other EXCEPT
                    !.pc = "scan",
                    !.filename = f,
                    !.currentState =
                        partialState("stateText",
                                     StateData(removeExtension(f),
                                               removeExtensions(f) \o MD,
                                               removeExtension(f)))]
    /\ UNCHANGED <<variant, filename, pc, doc, terminated, fed, lines>>
    /\ UNCHANGED <<sending, arg, ret, runVars, flagVars>>
    /\ UNCHANGED closureVars
    /\ UNCHANGED enumVars

\* One turn of the loop of the second goroutine.
OtherScan(l) ==
    /\ other.pc = "scan"
    /\ Len(other.doc) < MaxTwoLines
    /\ LET r == BoundState(other.currentState, l)
       IN  other' = [other EXCEPT
                        !.currentState = r.next,
                        !.lines = other.lines \o r.sent,
                        !.doc = Append(other.doc, l),
                        !.fed = Append(other.fed, l)]
    /\ UNCHANGED <<variant, filename, pc, doc, terminated, fed, lines>>
    /\ UNCHANGED <<sending, arg, ret, runVars, flagVars>>
    /\ UNCHANGED closureVars
    /\ UNCHANGED enumVars

\* The end of the input of the second goroutine.
OtherScanEnd ==
    /\ other.pc = "scan"
    /\ other' = [other EXCEPT !.pc = "closed"]
    /\ UNCHANGED <<variant, filename, pc, doc, terminated, fed, lines>>
    /\ UNCHANGED <<sending, arg, ret, runVars, flagVars>>
    /\ UNCHANGED closureVars
    /\ UNCHANGED enumVars

\* The second call of the enum version's ProcessFile: it assigns the
\* package variables that the first goroutine works on.
OtherEnumProcessFile(f) ==
    /\ variant = "enum"
    /\ pc = "read"
    /\ other.pc = "none"
    /\ defaultCodeOutput' = removeExtension(f)
    /\ defaultTextOutput' = removeExtensions(f) \o MD
    /\ currentTarget' = removeExtension(f)
    /\ other' = [other EXCEPT !.pc = "read", !.filename = f]
    /\ UNCHANGED <<variant, filename, pc, doc, terminated, fed, lines>>
    /\ UNCHANGED <<sending, arg, ret, runVars, flagVars>>
    /\ UNCHANGED state
    /\ UNCHANGED closureVars

\* processLine(line, out) called by the second goroutine.
OtherEnumCall(line) ==
    LET r == enumProcessLine([state |-> state,
                              currentTarget |-> currentTarget,
                              defaultCodeOutput |-> defaultCodeOutput,
                              defaultTextOutput |-> defaultTextOutput], line)
    IN  /\ state' = r.state
        /\ currentTarget' = r.currentTarget
        /\ UNCHANGED <<defaultCodeOutput, defaultTextOutput>>
        /\ other' = [other EXCEPT
                        !.lines = other.lines \o r.sent,
                        !.fed = Append(other.fed, line),
                        !.doc = IF line = << >> THEN other.doc
                                ELSE Append(other.doc, line),
                        !.pc = IF line # << >> /\ Last(line) = NL
                               THEN "read" ELSE "closed"]

\* One turn of the loop of the second goroutine, err == nil.
OtherReadLine(l) ==
    /\ other.pc = "read"
    /\ Len(other.doc) < MaxTwoLines
    /\ OtherEnumCall(l \o <<NL>>)
    /\ UNCHANGED <<variant, filename, pc, doc, terminated, fed, lines>>
    /\ UNCHANGED <<sending, arg, ret, runVars, flagVars>>
    /\ UNCHANGED closureVars

\* The last turn of the loop of the second goroutine, err == io.EOF.
OtherReadEOF(l) ==
    /\ other.pc = "read"
    /\ Len(other.doc) < MaxTwoLines
    /\ OtherEnumCall(l)
    /\ UNCHANGED <<variant, filename, pc, doc, terminated, fed, lines>>
    /\ UNCHANGED <<sending, arg, ret, runVars, flagVars>>
    /\ UNCHANGED closureVars

NextTwo ==
    \/ \E f \in Files : TwoProcessFile(f)
    \/ \E l \in TwoLines : TwoScan(l)
    \/ TwoScanEnd
    \/ \E f \in Files : TwoEnumProcessFile(f)
    \/ \E l \in TwoLines : TwoReadLine(l)
    \/ \E l \in TwoLines : TwoReadEOF(l)
    \/ \E f \in Files : OtherProcessFile(f)
    \/ \E l \in TwoLines : OtherScan(l)
    \/ OtherScanEnd
    \/ \E f \in Files : OtherEnumProcessFile(f)
    \/ \E l \in TwoLines : OtherReadLine(l)
    \/ \E l \in TwoLines : OtherReadEOF(l)

SpecTwo == Init /\ [][NextTwo]_vars

\* The state of the closure version after the first n of the strings h,
\* handed to the classifier of a document named f that is processed alone,
\* with the records sent.
RECURSIVE AloneClosure(_, _, _)
AloneClosure(f, h, n) ==
    IF n = 0
    THEN [sent |-> << >>,
          next |-> partialState("stateText",
                                StateData(removeExtension(f),
                                          removeExtensions(f) \o MD,
                                          removeExtension(f)))]
    ELSE LET before == AloneClosure(f, h, n - 1)
             r == BoundState(before.next, h[n])
         IN  [sent |-> before.sent \o r.sent, next |-> r.next]

\* The same for the enum version, started with its package variables as
\* declared.
RECURSIVE AloneEnum(_, _, _)
AloneEnum(f, h, n) ==
    IF n = 0
    THEN [sent |-> << >>,
          g |-> [state |-> "Text",
                 currentTarget |-> removeExtension(f),
                 defaultCodeOutput |-> removeExtension(f),
                 defaultTextOutput |-> removeExtensions(f) \o MD]]
    ELSE LET before == AloneEnum(f, h, n - 1)
             r == enumProcessLine(before.g, h[n])
         IN  [sent |-> before.sent \o r.sent,
              g |-> [before.g EXCEPT !.state = r.state,
                                     !.currentTarget = r.currentTarget]]

\* The records that the document named f yields when it is processed
\* alone and h is what its reader has handed to the classifier.
Alone(f, h) ==
    IF variant = "closure" THEN AloneClosure(f, h, Len(h)).sent
    ELSE AloneEnum(f, h, Len(h)).sent

\* C12: with two calls of ProcessFile running at the same time, the
\* records delivered for each document are those it yields when it is
\* processed alone.
DocumentsAreIsolated ==
    /\ pc \in {"scan", "read", "closed"} => lines = Alone(filename, fed)
    /\ other.pc # "none" => other.lines = Alone(other.filename, other.fed)

\* ------------------------------------------------------------------------
\* The records of one document, whatever its name

\* A record whose empty targets have empty contents and that has a target.
WellFormed(r) ==
    /\ r.CodeTarget = << >> => r.Code = << >>
    /\ r.TextTarget = << >> => r.Text = << >>
    /\ r.CodeTarget # << >> \/ r.TextTarget # << >>

LineHandled == Len(fed') = Len(fed) + 1

\* C14: every record delivered has the default text target of the document
\* as its TextTarget, or none; it has none exactly when the line handled
\* was indented or blank and the mode was Boilerplate.
TextTargetIsDefaultOrEmpty ==
    [][LineHandled =>
          \A k \in 1..Len(Emitted) :
              /\ Emitted[k].TextTarget \in {<< >>, DefaultTextTarget}
              /\ Emitted[k].TextTarget = << >>
                     <=> /\ Mode = "Boilerplate"
                         /\ Indented(Last(fed')) \/ Blank(Last(fed'))]_vars

\* An indented line of a boilerplate run has just been delivered without a
\* text target, in a document that has more than one extension.
TextTargetIsDefaultOrEmptyWitness ==
    /\ Len(fed) >= 2
    /\ Len(lines) >= 1
    /\ Mode = "Boilerplate"
    /\ Indented(Last(fed))
    /\ ~IsDirectiveLine(Last(fed))
    /\ Last(lines).TextTarget = << >>
    /\ removeExtension(filename) \o MD # DefaultTextTarget

\* The record for both streams of the line l.
CodeAndText(l) == Line(StripIndent(l), CurrentTarget, l, DefaultTextTarget)

\* C15: an indented line that is no directive, handled in mode Text or
\* Code, is delivered as one record for both streams, with the line
\* without its one indent as Code for the current target and the whole
\* line as Text for the default text target, and from mode Text the mode
\* becomes Code; a line that is not indented, handled in mode Text, is
\* delivered as text only and the mode stays Text.
IndentedLineIsCodeAndText ==
    [][(LineHandled /\ ~IsDirectiveLine(Last(fed'))) =>
          /\ (Mode \in {"Text", "Code"} /\ Indented(Last(fed'))) =>
                 /\ Emitted = <<CodeAndText(Last(fed'))>>
                 /\ Mode' = "Code"
          /\ (Mode = "Text" /\ ~Indented(Last(fed'))) =>
                 /\ Emitted = <<TextOnly(Last(fed'))>>
                 /\ Mode' = "Text"]_vars

\* The first line of a document was not indented and stayed text, and the
\* indented line after it has opened a code block.
IndentedLineIsCodeAndTextWitness ==
    /\ Len(fed) = 2
    /\ Len(lines) = 2
    /\ ~Indented(fed[1])
    /\ lines[1] = TextOnly(fed[1])
    /\ Indented(fed[2])
    /\ StripIndent(fed[2]) # << >>
    /\ lines[2].Code = StripIndent(fed[2])
    /\ lines[2].Text = fed[2]
    /\ Mode = "Code"

\* ------------------------------------------------------------------------
\* The channel between the goroutine and its consumer
\*
\* The channel has no buffer: the goroutine that sends a record waits in
\* the send until the consumer receives it, and reads its next line after
\* that.  The state function returns the next BoundState, and processLine
\* returns, when the send is over; no one else reads these variables, so
\* the model assigns them in the step that starts the send.

\* Largest number of lines of a document sent through the channel.
MaxChanLines == 3

ChanProcessFile(f) == ProcessFile(f, TRUE)

\* One turn of the loop of the closure version: the BoundState is called
\* with the line and waits in data.Output <- Line{...}, if it sends.
ChanScan(l) ==
    /\ pc = "scan"
    /\ sending = << >>
    /\ Len(doc) < MaxChanLines
    /\ LET r == BoundState(currentState, l)
       IN  /\ currentState' = r.next
           /\ sending' = r.sent
    /\ doc' = Append(doc, l)
    /\ fed' = Append(fed, l)
    /\ UNCHANGED <<variant, filename, pc, terminated, lines>>
    /\ UNCHANGED <<other, arg, ret, runVars, flagVars>>
    /\ UNCHANGED enumVars

\* Faulty ChanScanEnd: the channel is closed while a record is being sent.
ChanScanEndEarly(nl) == ScanEnd(nl)

\* The end of the input: the loop ends and the channel is closed.
ChanScanEnd(nl) ==
    /\ sending = << >>
    /\ ScanEnd(nl)

ChanEnumProcessFile(f) == EnumProcessFile(f, TRUE)

\* processLine(line, out) of the enum version, waiting in out <- Line{...}
\* if it sends.
ChanEnumCall(line) ==
    LET r == enumProcessLine([state |-> state,
                              currentTarget |-> currentTarget,
                              defaultCodeOutput |-> defaultCodeOutput,
                              defaultTextOutput |-> defaultTextOutput], line)
    IN  /\ state' = r.state
        /\ currentTarget' = r.currentTarget
        /\ sending' = r.sent
        /\ fed' = Append(fed, line)
        /\ UNCHANGED <<defaultCodeOutput, defaultTextOutput, lines>>

\* One turn of the loop of the enum version with err == nil.
ChanReadLine(l) ==
    /\ pc = "read"
    /\ sending = << >>
    /\ Len(doc) < MaxChanLines
    /\ ChanEnumCall(l \o <<NL>>)
    /\ doc' = Append(doc, l)
    /\ UNCHANGED <<variant, filename, pc, terminated>>
    /\ UNCHANGED <<other, arg, ret, runVars, flagVars>>
    /\ UNCHANGED closureVars

\* The last turn of the loop of the enum version, err == io.EOF; the loop
\* is left when processLine returns.
ChanReadEOF(l) ==
    /\ pc = "read"
    /\ sending = << >>
    /\ l # << >> => Len(doc) < MaxChanLines
    /\ ChanEnumCall(l)
    /\ doc' = IF l = << >> THEN doc ELSE Append(doc, l)
    /\ terminated' = (l = << >> /\ doc # << >>)
    /\ pc' = "eof"
    /\ UNCHANGED <<variant, filename>>
    /\ UNCHANGED <<other, arg, ret, runVars, flagVars>>
    /\ UNCHANGED closureVars

\* The deferred close(out) of the enum version.
ChanClose ==
    /\ pc = "eof"
    /\ sending = << >>
    /\ pc' = "closed"
    /\ UNCHANGED <<variant, filename, doc, terminated, fed, lines>>
    /\ UNCHANGED closureVars
    /\ UNCHANGED enumVars
    /\ UNCHANGED auxVars

\* Faulty Receive: the consumer puts the record it receives before the
\* ones it has.
ReceiveFirst ==
    /\ sending # << >>
    /\ lines' = sending \o lines
    /\ sending' = << >>
    /\ UNCHANGED <<variant, filename, pc, doc, terminated, fed>>
    /\ UNCHANGED <<other, arg, ret, runVars, flagVars>>
    /\ UNCHANGED closureVars
    /\ UNCHANGED enumVars

\* for line := range lines: the consumer receives the record that the
\* goroutine is sending.
Receive ==
    /\ sending # << >>
    /\ lines' = lines \o sending
    /\ sending' = << >>
    /\ UNCHANGED <<variant, filename, pc, doc, terminated, fed>>
    /\ UNCHANGED <<other, arg, ret, runVars, flagVars>>
    /\ UNCHANGED closureVars
    /\ UNCHANGED enumVars

NextChan ==
    \/ \E f \in Filenames : ChanProcessFile(f)
    \/ \E l \in Lines : ChanScan(l)
    \/ \E nl \in BOOLEAN : ChanScanEnd(nl)
    \/ \E f \in Filenames : ChanEnumProcessFile(f)
    \/ \E l \in Lines : ChanReadLine(l)
    \/ \E l \in Lines : ChanReadEOF(l)
    \/ ChanClose
    \/ Receive

SpecChan == Init /\ [][NextChan]_vars

\* The record comes from the string l handed to the classifier.
ComesFrom(r, l) ==
    /\ r.TextTarget # << >> => r.Text = l
    /\ r.CodeTarget # << >> => r.Code = StripIndent(l)
    /\ r.TextTarget # << >> \/ r.CodeTarget # << >>

\* C16: the records received and the one being sent are, in this order,
\* those of the lines handed to the classifier that are no directives, one
\* for each, and each is the record that the classifier yields for its
\* line in the state that the lines before it have left.
RecordsArriveInOrder ==
    pc \in {"scan", "read", "eof", "closed"} =>
        /\ Len(lines \o sending) = Len(NonDirectives(fed))
        /\ \A k \in 1..Len(lines \o sending) :
               ComesFrom((lines \o sending)[k], NonDirectives(fed)[k])
        /\ lines \o sending = Alone(filename, fed)
        /\ pc = "closed" => sending = << >>

\* The channel is closed after two records in the order of their lines:
\* a line of text, then, after a directive, a line of code for its target.
RecordsArriveInOrderWitness ==
    /\ pc = "closed"
    /\ Len(lines) = 2
    /\ Len(fed) >= 3
    /\ lines[1].CodeTarget = << >>
    /\ lines[2].CodeTarget # << >>
    /\ lines[2].CodeTarget # DefaultCodeTarget

\* ------------------------------------------------------------------------
\* unindent, parseDirective and the classifier on one line
\*
\* The line is drawn from the indents, openers, payloads, closers and ends
\* below; each function is applied to it on its own.

\* Largest number of characters of a payload drawn from PayloadChars.
MaxPayloadLen == 2

PayloadChars == {"x", SP, "<", ">"}

Indents ==
    { << >>, <<TAB>>, <<SP>>, <<SP, SP, SP>>, <<SP, SP, SP, SP>>,
      <<SP, SP, SP, SP, SP, SP, SP, SP>>, <<TAB, SP, SP, SP, SP>> }

Openers == { << >>, <<"<">>, <<"<", "<">>, <<"x", "<", "<">> }

Payloads ==
    UNION { [1..n -> PayloadChars] : n \in 0..MaxPayloadLen }
    \cup { ExampleDirective, <<SP>> \o ExampleDirective \o <<SP>>,
           BoilerplateDirective, <<SP>> \o BoilerplateDirective }

Closers == { << >>, <<">">>, <<">", ">">>, <<">", ">", SP, TAB>>,
             <<">", ">", "x">> }

\* A line of the closure version has no terminator; one of the enum
\* version has, but for the last.
Ends == { << >>, <<NL>> }

ArgLines ==
    { i \o o \o p \o c \o e :
          i \in Indents, o \in Openers, p \in Payloads, c \in Closers,
          e \in Ends }

InitLine ==
    /\ NotStarted
    /\ arg \in ArgLines
    /\ ret = [pc |-> "none"]

\* codeLine, isCode := unindent(arg)
Unindent ==
    /\ ret.pc = "none"
    /\ ret' = [pc |-> "unindent", r |-> unindent(arg)]
    /\ UNCHANGED <<variant, filename, pc, doc, terminated, fed, lines>>
    /\ UNCHANGED <<sending, other, arg, runVars, flagVars>>
    /\ UNCHANGED closureVars
    /\ UNCHANGED enumVars

\* directive, ok := parseDirective(arg)
ParseDirective ==
    /\ ret.pc = "none"
    /\ ret' = [pc |-> "parseDirective", r |-> parseDirective(arg)]
    /\ UNCHANGED <<variant, filename, pc, doc, terminated, fed, lines>>
    /\ UNCHANGED <<sending, other, arg, runVars, flagVars>>
    /\ UNCHANGED closureVars
    /\ UNCHANGED enumVars

\* The classifier state of a document f.c.md in the middle of which a
\* directive has named the target a.
ClassifyData == StateData(<<"f", ".", "c">>, <<"f", ".", "m", "d">>, <<"a">>)

\* The state function of the closure version for a mode.
StateOf(mode) ==
    CASE mode = "Text" -> "stateText"
      [] mode = "Code" -> "stateCode"
      [] mode = "Boilerplate" -> "stateBoilerplate"
      [] mode = "Example" -> "stateExample"

Modes == {"Text", "Code", "Boilerplate", "Example"}

\* The BoundState of the closure version for the mode is called with arg.
Classify(mode) ==
    /\ ret.pc = "none"
    /\ LET r == BoundState(partialState(StateOf(mode), ClassifyData), arg)
       IN  ret' = [pc |-> "classify", version |-> "closure",
                   mode |-> mode, sent |-> r.sent,
                   next |-> r.next.s,
                   currentTarget |-> r.next.data.CurrentTarget]
    /\ UNCHANGED <<variant, filename, pc, doc, terminated, fed, lines>>
    /\ UNCHANGED <<sending, other, arg, runVars, flagVars>>
    /\ UNCHANGED closureVars
    /\ UNCHANGED enumVars

\* The package variables of the enum version in the same situation.
ClassifyGlobals(mode) ==
    [state |-> mode,
     currentTarget |-> ClassifyData.CurrentTarget,
     defaultCodeOutput |-> ClassifyData.DefaultCodeOutput,
     defaultTextOutput |-> ClassifyData.DefaultTextOutput]

\* processLine of the enum version is called with arg in the mode.
EnumClassify(mode) ==
    /\ ret.pc = "none"
    /\ LET r == enumProcessLine(ClassifyGlobals(mode), arg)
       IN  ret' = [pc |-> "classify", version |-> "enum",
                   mode |-> mode, sent |-> r.sent,
                   next |-> StateOf(r.state),
                   currentTarget |-> r.currentTarget]
    /\ UNCHANGED <<variant, filename, pc, doc, terminated, fed, lines>>
    /\ UNCHANGED <<sending, other, arg, runVars, flagVars>>
    /\ UNCHANGED closureVars
    /\ UNCHANGED enumVars

NextLine ==
    \/ Unindent
    \/ ParseDirective
    \/ \E mode \in Modes : Classify(mode)
    \/ \E mode \in Modes : EnumClassify(mode)

SpecLine == InitLine /\ [][NextLine]_vars

\* The number of spaces that the line starts with.
LeadingSpaces(l) ==
    Cardinality({n \in 1..Len(l) : \A i \in 1..n : l[i] = SP})

\* The string q is the string p with white space around it, and p has none
\* at its ends.
IsTrimOf(p, q) ==
    /\ p = << >> \/ (~IsSpace(p[1]) /\ ~IsSpace(p[Len(p)]))
    /\ \E i \in 1..(Len(q) + 1) :
           /\ i + Len(p) - 1 <= Len(q)
           /\ p = SubSeq(q, i, i + Len(p) - 1)
           /\ \A j \in 1..Len(q) :
                  (j < i \/ j > i + Len(p) - 1) => IsSpace(q[j])

\* The string r is << and >> around a payload, followed by white space
\* only; k is where the >> is.
ClosesAt(r, k) ==
    /\ k >= 3
    /\ k + 1 <= Len(r)
    /\ r[1] = "<" /\ r[2] = "<"
    /\ r[k] = ">" /\ r[k + 1] = ">"
    /\ \A j \in (k + 2)..Len(r) : IsSpace(r[j])

\* The line starts with one tab or four spaces and what follows that
\* indent is << and >> around a payload, followed by white space only.
LooksLikeDirective(r) == \E k \in 1..Len(r) : ClosesAt(r, k)

\* The one record in a sequence of one record.
OnlyRecord(sent) == sent[1]

UnindentStripsOneIndent ==
    ret.pc = "unindent" =>
        IF arg # << >> /\ arg[1] = TAB
        THEN ret.r.ok /\ ret.r.line = Tail(arg)
        ELSE IF LeadingSpaces(arg) >= 4
        THEN ret.r.ok /\ ret.r.line = SubSeq(arg, 5, Len(arg))
        ELSE ~ret.r.ok /\ ret.r.line = arg

\* unindent has removed the tab of a line and left the four spaces that
\* follow it.
UnindentStripsOneIndentWitness ==
    /\ ret.pc = "unindent"
    /\ arg # << >>
    /\ arg[1] = TAB
    /\ ret.r.ok
    /\ Len(ret.r.line) > 4
    /\ SubSeq(ret.r.line, 1, 4) = <<SP, SP, SP, SP>>

\* ------------------------------------------------------------------------
\* removeExtension and removeExtensions on one document name

\* Largest number of characters of a document name.
MaxNameLen == 5

NameChars == {"f", "c", ".", "/"}

\* The names of documents: paths that are not empty and do not end with a
\* separator.
ArgNames ==
    { n \in UNION { [1..k -> NameChars] : k \in 1..MaxNameLen } :
          n[Len(n)] # "/" }

InitName ==
    /\ NotStarted
    /\ arg \in ArgNames
    /\ ret = [pc |-> "none"]

\* ProcessFile computes the two default targets of the document.
DefaultTargets ==
    /\ ret.pc = "none"
    /\ ret' = [pc |-> "targets",
               DefaultCodeOutput |-> removeExtension(arg),
               DefaultTextOutput |-> removeExtensions(arg) \o MD]
    /\ UNCHANGED <<variant, filename, pc, doc, terminated, fed, lines>>
    /\ UNCHANGED <<sending, other, arg, runVars, flagVars>>
    /\ UNCHANGED closureVars
    /\ UNCHANGED enumVars

\* f1, f2 := filename, removeExtension(filename)
RemoveExtensionsEnter ==
    /\ ret.pc = "none"
    /\ ret' = [pc |-> "loop", f1 |-> arg, f2 |-> removeExtension(arg),
               turns |-> 0]
    /\ UNCHANGED <<variant, filename, pc, doc, terminated, fed, lines>>
    /\ UNCHANGED <<sending, other, arg, runVars, flagVars>>
    /\ UNCHANGED closureVars
    /\ UNCHANGED enumVars

\* for f1 != f2 { f1, f2 = f2, removeExtension(f2) }; the turns are counted
\* up to two more than the name has characters.
RemoveExtensionsTurn ==
    /\ ret.pc = "loop"
    /\ ret.f1 # ret.f2
    /\ ret.turns < Len(arg) + 2
    /\ ret' = [ret EXCEPT !.f1 = ret.f2, !.f2 = removeExtension(ret.f2),
                          !.turns = ret.turns + 1]
    /\ UNCHANGED <<variant, filename, pc, doc, terminated, fed, lines>>
    /\ UNCHANGED <<sending, other, arg, runVars, flagVars>>
    /\ UNCHANGED closureVars
    /\ UNCHANGED enumVars

\* return f2
RemoveExtensionsReturn ==
    /\ ret.pc = "loop"
    /\ ret.f1 = ret.f2
    /\ ret' = [pc |-> "returned", r |-> ret.f2, turns |-> ret.turns]
    /\ UNCHANGED <<variant, filename, pc, doc, terminated, fed, lines>>
    /\ UNCHANGED <<sending, other, arg, runVars, flagVars>>
    /\ UNCHANGED closureVars
    /\ UNCHANGED enumVars

NextName ==
    \/ DefaultTargets
    \/ RemoveExtensionsEnter
    \/ RemoveExtensionsTurn
    \/ RemoveExtensionsReturn

SpecName == InitName /\ [][NextName]_vars

\* The positions of the character c in the string s.
Positions(c, s) == {i \in 1..Len(s) : s[i] = c}

\* The name n without its directories.
BaseName(n) ==
    IF Positions("/", n) = {} THEN n
    ELSE SubSeq(n, (CHOOSE i \in Positions("/", n) :
                        \A j \in Positions("/", n) : j <= i) + 1, Len(n))

\* The base name b without its last extension.
WithoutLastExtension(b) ==
    IF Positions(".", b) = {} THEN b
    ELSE SubSeq(b, 1, (CHOOSE i \in Positions(".", b) :
                           \A j \in Positions(".", b) : j <= i) - 1)

\* The base name b without any of its extensions.
WithoutExtensions(b) ==
    IF Positions(".", b) = {} THEN b
    ELSE SubSeq(b, 1, (CHOOSE i \in Positions(".", b) :
                           \A j \in Positions(".", b) : i <= j) - 1)

\* C19: the default code target of a document is its base name without
\* its last extension and its default text target is its base name without
\* any of its extensions, followed by .md; the loop of removeExtensions
\* ends, after no more turns than the name has characters, with that base
\* name without extensions.
DefaultTargetsFromName ==
    /\ ret.pc = "targets" =>
           /\ ret.DefaultCodeOutput = WithoutLastExtension(BaseName(arg))
           /\ ret.DefaultTextOutput = WithoutExtensions(BaseName(arg)) \o MD
    /\ ret.pc = "loop" =>
           /\ ret.turns <= Len(arg)
           /\ ret.f1 # ret.f2 => ret.turns < Len(arg)
    /\ ret.pc = "returned" =>
           /\ ret.r = WithoutExtensions(BaseName(arg))
           /\ ret.turns <= Len(arg)

\* The targets of a document with two extensions have been computed.
DefaultTargetsFromNameWitness ==
    /\ ret.pc = "targets"
    /\ Len(arg) = 5
    /\ Positions(".", arg) = {2, 4}
    /\ Positions("/", arg) = {}
    /\ ret.DefaultCodeOutput = SubSeq(arg, 1, 3)
    /\ ret.DefaultTextOutput = SubSeq(arg, 1, 1) \o MD

\* C20: in each of the four modes the classifier of either version has a
\* result for every line, which is one of the four modes and one record or
\* none; the record is missing exactly for a directive line.
ClassifierIsTotal ==
    /\ ret.pc = "none" =>
           \A mode \in Modes :
               LET c == BoundState(partialState(StateOf(mode), ClassifyData),
                                   arg)
                   e == enumProcessLine(ClassifyGlobals(mode), arg)
               IN  /\ c.next.s \in {StateOf(m) : m \in Modes}
                   /\ Len(c.sent) <= 1
                   /\ e.state \in Modes
                   /\ Len(e.sent) <= 1
    /\ ret.pc = "classify" =>
           /\ ret.next \in {StateOf(mode) : mode \in Modes}
           /\ Len(ret.sent) <= 1
           /\ ret.sent = << >> <=> IsDirectiveLine(arg)

\* A call in mode Boilerplate has sent one record and left mode Text.
ClassifierIsTotalWitness ==
    /\ ret.pc = "classify"
    /\ ret.mode = "Boilerplate"
    /\ ret.next = "stateText"
    /\ Len(ret.sent) = 1
    /\ ret.version = "enum"

\* ------------------------------------------------------------------------
\* What a line may change

\* The default targets that the classifier that runs holds.
DefaultCodeOutput ==
    IF variant = "closure" THEN currentState.data.DefaultCodeOutput
    ELSE defaultCodeOutput

DefaultTextOutput ==
    IF variant = "closure" THEN currentState.data.DefaultTextOutput
    ELSE defaultTextOutput

\* The payload of the directive line l.
Payload(l) == parseDirective(l).directive

\* C26: the step that handles a line changes the current target only when
\* the line is a directive with a payload other than !-- and #--, and it
\* never changes the default code target or the default text target.
OnlyTargetDirectiveChangesTarget ==
    [][LineHandled =>
          /\ CurrentTarget' # CurrentTarget => IsTargetLine(Last(fed'))
          /\ DefaultCodeOutput' = DefaultCodeOutput
          /\ DefaultTextOutput' = DefaultTextOutput]_vars

\* After a directive has named a target, the directive !-- has left that
\* target in place.
OnlyTargetDirectiveChangesTargetWitness ==
    /\ Len(fed) = 2
    /\ IsTargetLine(fed[1])
    /\ IsDirectiveLine(fed[2])
    /\ Payload(fed[2]) = ExampleDirective
    /\ CurrentTarget = Payload(fed[1])
    /\ CurrentTarget # DefaultCodeOutput
    /\ DefaultCodeOutput = DefaultCodeTarget
    /\ DefaultTextOutput = DefaultTextTarget

\* C27: the step that handles a line moves the mode to Boilerplate from
\* another mode only when the line is the directive #--, and to Example
\* only when it is the directive !--; a line that is no directive, handled
\* in mode Text, leaves the mode Text or moves it to Code.
OnlyDirectivesEnterSpecialModes ==
    [][LineHandled =>
          /\ (Mode' = "Boilerplate" /\ Mode # "Boilerplate") =>
                 /\ IsDirectiveLine(Last(fed'))
                 /\ Payload(Last(fed')) = BoilerplateDirective
          /\ (Mode' = "Example" /\ Mode # "Example") =>
                 /\ IsDirectiveLine(Last(fed'))
                 /\ Payload(Last(fed')) = ExampleDirective
          /\ (Mode = "Text" /\ ~IsDirectiveLine(Last(fed'))) =>
                 Mode' \in {"Text", "Code"}]_vars

\* A line of prose has ended a code block, and the mode is Text.
OnlyDirectivesEnterSpecialModesWitness ==
    /\ Len(fed) = 2
    /\ Len(lines) = 2
    /\ Indented(fed[1])
    /\ ~Indented(fed[2]) /\ ~Blank(fed[2])
    /\ lines[1].CodeTarget # << >>
    /\ Mode = "Text"

\* C30: in a document whose default code target is not empty, the current
\* target is never empty, and the record of an indented or blank line
\* handled in mode Code or Boilerplate, or of an indented line handled in
\* mode Text, has a CodeTarget that is not empty.
CodeTargetIsNeverEmpty ==
    [][/\ (pc' \in {"scan", "read", "closed"} /\ DefaultCodeTarget' # << >>)
           => CurrentTarget' # << >>
       /\ (/\ LineHandled
           /\ DefaultCodeTarget # << >>
           /\ ~IsDirectiveLine(Last(fed'))
           /\ \/ /\ Mode \in {"Code", "Boilerplate"}
                 /\ Indented(Last(fed')) \/ Blank(Last(fed'))
              \/ Mode = "Text" /\ Indented(Last(fed')))
           => /\ Len(Emitted) = 1
              /\ Emitted[1].CodeTarget # << >>]_vars

\* After a directive with a payload of white space only, an indented line
\* has been sent to the default code target.
CodeTargetIsNeverEmptyWitness ==
    /\ Len(fed) = 2
    /\ IsDirectiveLine(fed[1])
    /\ Payload(fed[1]) = << >>
    /\ Indented(fed[2])
    /\ Len(lines) = 1
    /\ lines[1].CodeTarget = DefaultCodeTarget
    /\ DefaultCodeTarget # << >>

\* ------------------------------------------------------------------------
\* The two classifiers side by side
\*
\* Both versions are started for the same document and called with the
\* same lines; the records of the closure version are kept in lines and
\* those of the enum version in other.lines.

\* Largest number of lines handed to both classifiers.
MaxBothLines == 3

\* The lines, as the reader of either version hands them over.
BothLines == { l \o e : l \in Lines, e \in Ends }

\* What ProcessFile of each version sets up before its first line.
BothProcessFile(f) ==
    /\ pc = "start"
    /\ variant' = "both"
    /\ filename' = f
    /\ currentState' =
           partialState("stateText",
                        StateData(removeExtension(f),
                                  removeExtensions(f) \o MD,
                                  removeExtension(f)))
    /\ defaultCodeOutput' = removeExtension(f)
    /\ defaultTextOutput' = removeExtensions(f) \o MD
    /\ currentTarget' = removeExtension(f)
    /\ pc' = "lines"
    /\ UNCHANGED <<state, doc, terminated, fed, lines>>
    /\ UNCHANGED auxVars

\* currentState = currentState(l) and processLine(l, out).
BothLine(l) ==
    /\ pc = "lines"
    /\ Len(fed) < MaxBothLines
    /\ LET c == BoundState(currentState, l)
           e == enumProcessLine([state |-> state,
                                 currentTarget |-> currentTarget,
                                 defaultCodeOutput |-> defaultCodeOutput,
                                 defaultTextOutput |-> defaultTextOutput], l)
       IN  /\ currentState' = c.next
           /\ lines' = lines \o c.sent
           /\ state' = e.state
           /\ currentTarget' = e.currentTarget
           /\ other' = [other EXCEPT !.lines = other.lines \o e.sent]
    /\ fed' = Append(fed, l)
    /\ doc' = Append(doc, l)
    /\ UNCHANGED <<variant, filename, pc, terminated>>
    /\ UNCHANGED <<defaultCodeOutput, defaultTextOutput>>
    /\ UNCHANGED <<sending, arg, ret, runVars, flagVars>>

NextBoth ==
    \/ \E f \in Filenames : BothProcessFile(f)
    \/ \E l \in BothLines : BothLine(l)

SpecBoth == Init /\ [][NextBoth]_vars

\* C28: called with the same lines of one document from the start, the
\* closure version and the enum version have sent the same records and are
\* in the same mode with the same current target and default targets.
ClosureAndEnumAgree ==
    pc = "lines" =>
        /\ lines = other.lines
        /\ currentState.s = StateOf(state)
        /\ currentState.data.CurrentTarget = currentTarget
        /\ currentState.data.DefaultCodeOutput = defaultCodeOutput
        /\ currentState.data.DefaultTextOutput = defaultTextOutput

\* Both versions are in a boilerplate run for a target that a directive
\* named, and have sent the first line of the run.
ClosureAndEnumAgreeWitness ==
    /\ pc = "lines"
    /\ Len(fed) = 3
    /\ state = "Boilerplate"
    /\ currentState.s = "stateBoilerplate"
    /\ currentTarget # defaultCodeOutput
    /\ Len(lines) = 1
    /\ Len(other.lines) = 1
    /\ lines[1].Code # << >>

\* ------------------------------------------------------------------------
\* The goroutine and its consumer, both kept running
\*
\* The goroutine, once started, is always able to take its next step or
\* waits in a send, and the scheduler lets it run; the consumer keeps
\* receiving.  The document is finite: the reader comes to its end.

\* The steps of the goroutine.
Producer ==
    \/ \E l \in Lines : ChanScan(l)
    \/ \E nl \in BOOLEAN : ChanScanEnd(nl)
    \/ \E l \in Lines : ChanReadLine(l)
    \/ \E l \in Lines : ChanReadEOF(l)
    \/ ChanClose

SpecChanFair == SpecChan /\ WF_vars(Producer) /\ WF_vars(Receive)

FlagLine(codeTarget, textTarget, text) ==
    [CodeTarget |-> codeTarget, TextTarget |-> textTarget, Text |-> text]

\* processLine(line, lines) of the flag version.  g holds the package
\* variables at the call; the result holds what was sent on the channel and
\* the package variables at the return.
flagProcessLine(g, line) ==
    LET target == IF g.currentTarget = << >> THEN g.targetCodeFile
                  ELSE g.currentTarget
        indented == \/ HasPrefix(line, <<TAB>>)
                    \/ HasPrefix(line, <<SP, SP, SP, SP>>)
        stripped == IF line # << >> /\ line[1] = TAB
                    THEN SubSeq(line, 2, Len(line))
                    ELSE SubSeq(line, 5, Len(line))
        m == rxDirective(stripped)
        directive == TrimSpace(m.group)
        keep(sent) == [sent |-> sent, currentTarget |-> target,
                       isBoilerplate |-> g.isBoilerplate,
                       isExample |-> g.isExample,
                       writingCode |-> g.writingCode]
        routed(text) ==
            IF g.isBoilerplate THEN FlagLine(target, << >>, text)
            ELSE FlagLine(target, g.targetTextFile, text)
    IN  IF indented
        THEN IF g.isExample
             THEN keep(<<FlagLine(<< >>, g.targetTextFile, line)>>)
             ELSE IF m.matches
             THEN IF directive = ExampleDirective
                  THEN [keep(<< >>) EXCEPT !.isExample = TRUE]
                  ELSE IF directive = BoilerplateDirective
                  THEN [keep(<< >>) EXCEPT !.isBoilerplate = TRUE]
                  ELSE [keep(<< >>) EXCEPT !.currentTarget = directive]
             ELSE [keep(<<routed(stripped)>>) EXCEPT !.writingCode = TRUE]
        ELSE IF g.writingCode /\ TrimSpace(line) = << >>
        THEN keep(<<routed(line)>>)
        ELSE [sent |-> <<FlagLine(<< >>, g.targetTextFile, line)>>,
              currentTarget |-> target,
              isBoilerplate |-> FALSE,
              isExample |-> FALSE,
              writingCode |-> FALSE]

\* The package variables of the flag version, as flagProcessLine takes
\* them.
FlagGlobals ==
    [currentTarget |-> currentTarget, isBoilerplate |-> isBoilerplate,
     isExample |-> isExample, writingCode |-> writingCode,
     targetCodeFile |-> targetCodeFile, targetTextFile |-> targetTextFile]

\* The documents one run may read hold at most this many lines.
MaxFlagLines == 2

\* The lines of these documents, without their terminator.
FlagLines ==
    { <<"x">>,
      <<TAB, "x">>,
      <<TAB>> \o Directive(<<"a">>),
      <<TAB>> \o Directive(ExampleDirective) }

FlagF == <<"f", ".", "c", ".", "m", "d">>
FlagG == <<"g", ".", "m", "d">>

\* What the glob patterns of one run expand to.
FlagArgs == { <<FlagF>>, <<FlagF, FlagG>>, <<FlagG, FlagF>> }

\* The file at path with one more creation (and truncation) by os.Create.
Created(d, path) ==
    [p \in DOMAIN d \cup {path} |->
        IF p = path
        THEN [creates |-> IF path \in DOMAIN d THEN d[path].creates + 1
                          ELSE 1,
              content |-> << >>]
        ELSE d[p]]

\* The file at path with chunk written after what it holds.
Written(d, path, chunk) ==
    [d EXCEPT ![path].content = Append(@, chunk)]

\* main of mdweave or mdtangle starts; files is what the glob patterns of
\* the command line expand to, in order.
FlagMain(main, files) ==
    /\ run.pc = "none"
    /\ run' = [pc |-> "loop", main |-> main, files |-> files, exit |-> 0,
               target |-> << >>]
    /\ variant' = "flag"
    /\ UNCHANGED <<filename, pc, doc, terminated, fed, lines, sending,
                   other, arg, ret, outputFiles, disk, currentTarget>>
    /\ UNCHANGED <<closureVars, state, defaultCodeOutput,
                   defaultTextOutput, flagVars>>

\* One turn of main's loop over the files up to the loop over the channel:
\* ProcessFile(file) opens the document, sets targetCodeFile and
\* targetTextFile and starts the goroutine; on an error main exits with 1.
\* mdweave then creates the text target, and exits with 1 if it cannot.
FlagProcessFile(opened, created) ==
    /\ run.pc = "loop"
    /\ run.exit = 0
    /\ run.files # << >>
    /\ pc \in {"start", "closed"}
    /\ LET file == Head(run.files)
           target == removeExtensions(file) \o MD
       IN  /\ filename' = file
           /\ doc' = << >>
           /\ terminated' = FALSE
           /\ fed' = << >>
           /\ lines' = << >>
           /\ IF ~opened
              THEN /\ pc' = "failed"
                   /\ run' = [run EXCEPT !.exit = 1, !.files = Tail(@)]
                   /\ UNCHANGED <<flagVars, disk>>
              ELSE /\ targetCodeFile' = removeExtension(file)
                   /\ targetTextFile' = target
                   /\ UNCHANGED <<isBoilerplate, isExample, writingCode>>
                   /\ pc' = "read"
                   /\ IF run.main = "mdweave"
                      THEN IF created
                           THEN /\ disk' = Created(disk, target)
                                /\ run' = [run EXCEPT !.target = target,
                                                      !.files = Tail(@)]
                           ELSE /\ disk' = disk
                                /\ run' = [run EXCEPT !.exit = 1,
                                                      !.files = Tail(@)]
                      ELSE /\ disk' = disk
                           /\ run' = [run EXCEPT !.files = Tail(@)]
    /\ UNCHANGED <<variant, sending, other, arg, ret, outputFiles,
                   currentTarget>>
    /\ UNCHANGED <<closureVars, state, defaultCodeOutput, defaultTextOutput>>

\* processLine(line, out) in the goroutine: the package variables change
\* and the goroutine blocks in the send of the record, if there is one.
FlagCall(line) ==
    LET r == flagProcessLine(FlagGlobals, line)
    IN  /\ currentTarget' = r.currentTarget
        /\ isBoilerplate' = r.isBoilerplate
        /\ isExample' = r.isExample
        /\ writingCode' = r.writingCode
        /\ sending' = r.sent
        /\ fed' = Append(fed, line)
        /\ UNCHANGED <<targetCodeFile, targetTextFile>>

\* One turn of the goroutine's loop with err == nil.
FlagReadLine(l) ==
    /\ variant = "flag"
    /\ run.exit = 0
    /\ pc = "read"
    /\ sending = << >>
    /\ Len(doc) < MaxFlagLines
    /\ FlagCall(l \o <<NL>>)
    /\ doc' = Append(doc, l)
    /\ UNCHANGED <<variant, filename, pc, terminated, lines, other, arg, ret,
                   runVars>>
    /\ UNCHANGED <<closureVars, state, defaultCodeOutput, defaultTextOutput>>

\* The last turn of the goroutine's loop, err == io.EOF: processLine is
\* called with what is left of the input, which may be empty.
FlagReadEOF(l) ==
    /\ variant = "flag"
    /\ run.exit = 0
    /\ pc = "read"
    /\ sending = << >>
    /\ l # << >> => Len(doc) < MaxFlagLines
    /\ FlagCall(l)
    /\ doc' = IF l = << >> THEN doc ELSE Append(doc, l)
    /\ terminated' = (l = << >> /\ doc # << >>)
    /\ pc' = "eof"
    /\ UNCHANGED <<variant, filename, lines, other, arg, ret, runVars>>
    /\ UNCHANGED <<closureVars, state, defaultCodeOutput, defaultTextOutput>>

\* The deferred close(out) of the goroutine, after its last send.
FlagClose ==
    /\ variant = "flag"
    /\ run.exit = 0
    /\ pc = "eof"
    /\ sending = << >>
    /\ pc' = "closed"
    /\ UNCHANGED <<variant, filename, doc, terminated, fed, lines, sending,
                   other, arg, ret, runVars, currentTarget, flagVars>>
    /\ UNCHANGED <<closureVars, state, defaultCodeOutput, defaultTextOutput>>

\* The chunk mdweave writes for the record line: a tab before the text of
\* a record that has a code target.
Woven(line) ==
    (IF line.CodeTarget # << >> THEN <<TAB>> ELSE << >>) \o line.Text

\* One turn of main's loop over the channel.  mdweave skips a record
\* without text target and writes the others to the file it created for
\* the document.  mdtangle skips a record without code target; for the
\* others it looks the code target up in outputFiles, creates the file if
\* it is not there (exit with 1 if it cannot) and writes the text.
FlagReceive(created) ==
    /\ variant = "flag"
    /\ run.exit = 0
    /\ sending # << >>
    /\ LET line == sending[1]
       IN  /\ lines' = Append(lines, line)
           /\ sending' = << >>
           /\ IF run.main = "mdweave"
              THEN /\ disk' = IF line.TextTarget = << >> THEN disk
                              ELSE Written(disk, run.target, Woven(line))
                   /\ UNCHANGED <<run, outputFiles>>
              ELSE IF line.CodeTarget = << >>
              THEN UNCHANGED <<run, outputFiles, disk>>
              ELSE IF line.CodeTarget \in outputFiles
              THEN /\ disk' = Written(disk, line.CodeTarget, line.Text)
                   /\ UNCHANGED <<run, outputFiles>>
              ELSE IF created
              THEN /\ disk' = Written(Created(disk, line.CodeTarget),
                                      line.CodeTarget, line.Text)
                   /\ outputFiles' = outputFiles \cup {line.CodeTarget}
                   /\ run' = run
              ELSE /\ run' = [run EXCEPT !.exit = 1]
                   /\ UNCHANGED <<outputFiles, disk>>
    /\ UNCHANGED <<variant, filename, pc, doc, terminated, fed, other, arg,
                   ret, currentTarget, flagVars>>
    /\ UNCHANGED <<closureVars, state, defaultCodeOutput, defaultTextOutput>>

NextFlag ==
    \/ \E main \in {"mdweave", "mdtangle"}, files \in FlagArgs :
           FlagMain(main, files)
    \/ \E opened \in BOOLEAN, created \in BOOLEAN :
           FlagProcessFile(opened, created)
    \/ \E l \in FlagLines : FlagReadLine(l)
    \/ \E l \in FlagLines \cup {<< >>} : FlagReadEOF(l)
    \/ FlagClose
    \/ \E created \in BOOLEAN : FlagReceive(created)

SpecFlag == Init /\ [][NextFlag]_vars


\* The chunks written so far to the files of the run, as a set.
ChunksWritten ==
    UNION { { disk[p].content[i] : i \in 1..Len(disk[p].content) } :
            p \in DOMAIN disk }

\* C24: with the flag version, no directive line of the input is ever
\* written to the output of mdweave, in whatever block it stands,
\* including a block opened by <<!-->>: no chunk mdweave has written is a
\* directive line.
NoDirectiveIsWoven ==
    (variant = "flag" /\ run.main = "mdweave") =>
        \A chunk \in ChunksWritten : ~IsDirectiveLine(chunk)

\* C25: with the flag version, when mdtangle handles several documents in
\* one run, a code record of a document that had no target directive so
\* far is written to that document's own default code file, its name
\* without the last extension, and to no other file.
CodeGoesToOwnDefaultFile ==
    [][(/\ variant = "flag"
        /\ run.main = "mdtangle"
        /\ sending # << >>
        /\ sending' = << >>
        /\ run'.exit = 0
        /\ sending[1].CodeTarget # << >>
        /\ TargetIdx(fed) = {})
       => LET own == removeExtension(filename)
          IN  /\ own \in DOMAIN disk'
              /\ Last(disk'[own].content) = sending[1].Text
              /\ \A p \in DOMAIN disk' \ {own} :
                     p \in DOMAIN disk /\ disk'[p] = disk[p]]_vars


\* ------------------------------------------------------------------------
\* ProcessFiles: patterns, documents and output files
\* ------------------------------------------------------------------------

\* The working directory of the run.
Cwd == <<"/", "w">>

\* filepath.IsAbs
IsAbs(path) == path # << >> /\ IsPathSeparator(path[1])

\* filepath.Dir, for a path without trailing separator: all but the last
\* element, "." when there is one element only.
Dir(path) ==
    LET i == LastSlash(path)
    IN  IF i = 0 THEN <<".">>
        ELSE IF i = 1 THEN <<"/">>
        ELSE SubSeq(path, 1, i - 1)

\* filepath.Join(dir, elem) for cleaned arguments without . and ..
\* elements: the two joined by a separator, and elem alone under ".".
Join(dir, elem) ==
    IF dir = <<".">> THEN elem
    ELSE IF dir = <<"/">> THEN dir \o elem
    ELSE dir \o <<"/">> \o elem

\* filepath.Abs: a relative path is joined to the working directory.
Abs(path) == IF IsAbs(path) THEN path ELSE Join(Cwd, path)

getAbsTargetPath(source, targetPath) ==
    IF IsAbs(targetPath) THEN targetPath
    ELSE Abs(Join(Dir(source), targetPath))

\* The key of outputFiles and the name given to os.Create for the target
\* of a record of the document file: the closure version resolves the
\* target against the directory of the document, the enum version takes it
\* as it is.
TargetKey(file, target) ==
    IF variant = "closure" THEN getAbsTargetPath(file, target) ELSE target

\* fmt.Fprintln(out, s) of the closure version, whose records hold lines
\* without terminator, and fmt.Fprint(out, s) of the enum version, whose
\* records hold the terminator.
Printed(s) == IF variant = "closure" THEN s \o <<NL>> ELSE s

\* The patterns of the model and what filepath.Glob gives for them: the
\* working directory holds f.c.md and g.md, its directory d holds g.md, and
\* a pattern with an unclosed character class is malformed.  err is
\* ErrBadPattern.
PatternBad == <<"[">>
PatternAll == <<"*", ".", "m", "d">>
PatternG == <<"g", ".", "m", "d">>
PatternSub == <<"d", "/", "*", ".", "m", "d">>

Glob(pattern) ==
    CASE pattern = PatternBad -> [files |-> << >>, err |-> TRUE]
      [] pattern = PatternAll -> [files |-> <<FlagF, FlagG>>, err |-> FALSE]
      [] pattern = PatternG -> [files |-> <<FlagG>>, err |-> FALSE]
      [] pattern = PatternSub ->
             [files |-> << <<"d", "/">> \o FlagG >>, err |-> FALSE]
      [] OTHER -> [files |-> << >>, err |-> FALSE]

\* The pattern lists ProcessFiles is called with.
RunPatterns ==
    { <<PatternAll>>, <<PatternBad, PatternG>>, <<PatternSub, PatternG>> }

\* The documents of a run hold at most this many lines.
MaxRunLines == 2

\* The lines of these documents.
RunLines ==
    { <<"x">>, <<TAB, "x">>, <<TAB>> \o Directive(<<"a">>) }

\* ProcessFiles(writeCode, writeText, patterns...) is called and makes its
\* empty table.
RunProcessFiles(version, writeCode, writeText, patterns) ==
    /\ run.pc = "none"
    /\ variant' = version
    /\ run' = [pc |-> "loop", writeCode |-> writeCode,
               writeText |-> writeText, patterns |-> patterns,
               globbed |-> << >>, files |-> << >>, file |-> << >>,
               failed |-> FALSE, exit |-> 0]
    /\ outputFiles' = {}
    /\ UNCHANGED <<filename, pc, doc, terminated, fed, lines, sending,
                   other, arg, ret, disk, flagVars>>
    /\ UNCHANGED <<closureVars, enumVars>>

\* ProcessFiles is between two documents: none is open, or the channel of
\* the last one is closed and drained.
RunIdle ==
    /\ run.pc = "loop"
    /\ run.exit = 0
    /\ ~run.failed
    /\ \/ run.file = << >> /\ pc = "start"
       \/ pc = "closed" /\ sending = << >>

\* for _, pattern := range patterns { files, _ := filepath.Glob(pattern):
\* the error of Glob is dropped, and the loop over no files goes on to the
\* next pattern.
RunGlob ==
    /\ RunIdle
    /\ run.files = << >>
    /\ run.patterns # << >>
    /\ run' = [run EXCEPT !.files = Glob(Head(run.patterns)).files,
                          !.patterns = Tail(@),
                          !.globbed = Append(@, Head(run.patterns))]
    /\ UNCHANGED <<variant, filename, pc, doc, terminated, fed, lines,
                   sending, other, arg, ret, outputFiles, disk, flagVars>>
    /\ UNCHANGED <<closureVars, enumVars>>

\* Faulty loop: the next document is taken while the goroutine of the
\* current one still runs or a record of it is in flight.
RunNextFileEarly ==
    /\ run.pc = "loop"
    /\ run.exit = 0
    /\ ~run.failed
    /\ pc # "failed"
    /\ run.files # << >>
    /\ run' = [run EXCEPT !.file = Head(run.files), !.files = Tail(@)]
    /\ pc' = "start"
    /\ doc' = << >>
    /\ terminated' = FALSE
    /\ fed' = << >>
    /\ lines' = << >>
    /\ UNCHANGED <<variant, filename, sending, other, arg, ret, outputFiles,
                   disk, flagVars>>
    /\ UNCHANGED <<closureVars, enumVars>>

\* for _, file := range files: the next document of the pattern.
RunNextFile ==
    /\ RunIdle
    /\ run.files # << >>
    /\ run' = [run EXCEPT !.file = Head(run.files), !.files = Tail(@)]
    /\ pc' = "start"
    /\ doc' = << >>
    /\ terminated' = FALSE
    /\ fed' = << >>
    /\ lines' = << >>
    /\ UNCHANGED <<variant, filename, sending, other, arg, ret, outputFiles,
                   disk, flagVars>>
    /\ UNCHANGED <<closureVars, enumVars>>

\* lines, err := ProcessFile(file); opened is the outcome of os.Open.
RunProcessFile(opened) ==
    /\ run.pc = "loop"
    /\ run.exit = 0
    /\ run.file # << >>
    /\ IF variant = "closure" THEN ProcessFile(run.file, opened)
       ELSE EnumProcessFile(run.file, opened)

\* Faulty exit: the failure is reported and the run goes on with the next
\* document.
RunExitSkips ==
    /\ run.pc = "loop"
    /\ run.exit = 0
    /\ pc = "failed" \/ run.failed
    /\ run' = [run EXCEPT !.failed = FALSE]
    /\ pc' = "closed"
    /\ sending' = << >>
    /\ UNCHANGED <<variant, filename, doc, terminated, fed, lines, other,
                   arg, ret, outputFiles, disk, flagVars>>
    /\ UNCHANGED <<closureVars, enumVars>>

\* if err != nil { fmt.Fprintln(os.Stderr, err); os.Exit(1) } after
\* ProcessFile and after os.Create.
RunExit ==
    /\ run.pc = "loop"
    /\ run.exit = 0
    /\ pc = "failed" \/ run.failed
    /\ run' = [run EXCEPT !.exit = 1]
    /\ UNCHANGED <<variant, filename, pc, doc, terminated, fed, lines,
                   sending, other, arg, ret, outputFiles, disk, flagVars>>
    /\ UNCHANGED <<closureVars, enumVars>>

\* The goroutine of the document runs while ProcessFiles does.
RunGoes ==
    /\ run.pc = "loop"
    /\ run.exit = 0
    /\ ~run.failed
    /\ Len(doc) < MaxRunLines

RunScan(l) == RunGoes /\ ChanScan(l)

RunScanEnd(nl) ==
    /\ run.pc = "loop"
    /\ run.exit = 0
    /\ ~run.failed
    /\ ChanScanEnd(nl)

RunReadLine(l) == RunGoes /\ ChanReadLine(l)

RunReadEOF(l) ==
    /\ run.pc = "loop"
    /\ run.exit = 0
    /\ ~run.failed
    /\ l # << >> => Len(doc) < MaxRunLines
    /\ ChanReadEOF(l)

RunClose ==
    /\ run.pc = "loop"
    /\ run.exit = 0
    /\ ~run.failed
    /\ ChanClose

\* The part of the loop body for one target of a record: out, ok :=
\* outputFiles[key]; if !ok, os.Create(key) and the entry in the table;
\* then the write.  t holds the table, the files and whether a creation
\* has failed; created is the outcome of os.Create, should it be called.
WriteTarget(t, key, text, created) ==
    IF t.failed THEN t
    ELSE IF key \in t.outputFiles
    THEN [t EXCEPT !.disk = Written(t.disk, key, Printed(text))]
    ELSE IF created
    THEN [outputFiles |-> t.outputFiles \cup {key},
          disk |-> Written(Created(t.disk, key), key, Printed(text)),
          failed |-> FALSE]
    ELSE [t EXCEPT !.failed = TRUE]

\* Faulty loop body: the table is not looked up, the file is created for
\* every record.
RunWriteCreatesAlways(line, codeCreated, textCreated) ==
    LET t0 == [outputFiles |-> {}, disk |-> disk, failed |-> FALSE]
        t1 == IF run.writeCode /\ line.CodeTarget # << >>
              THEN WriteTarget(t0, TargetKey(run.file, line.CodeTarget),
                               line.Code, codeCreated)
              ELSE t0
    IN  IF run.writeText /\ line.TextTarget # << >>
        THEN WriteTarget([t1 EXCEPT !.outputFiles = {}],
                         TargetKey(run.file, line.TextTarget),
                         line.Text, textCreated)
        ELSE t1

\* The body of the loop over the channel for the record line: its code to
\* the code target, then its text to the text target.
RunWrite(line, codeCreated, textCreated) ==
    LET t0 == [outputFiles |-> outputFiles, disk |-> disk, failed |-> FALSE]
        t1 == IF run.writeCode /\ line.CodeTarget # << >>
              THEN WriteTarget(t0, TargetKey(run.file, line.CodeTarget),
                               line.Code, codeCreated)
              ELSE t0
    IN  IF run.writeText /\ line.TextTarget # << >>
        THEN WriteTarget(t1, TargetKey(run.file, line.TextTarget),
                         line.Text, textCreated)
        ELSE t1

\* One turn of the loop over the channel: the record is received and
\* written.
RunReceive(codeCreated, textCreated) ==
    /\ run.pc = "loop"
    /\ run.exit = 0
    /\ ~run.failed
    /\ sending # << >>
    /\ LET t == RunWrite(sending[1], codeCreated, textCreated)
       IN  /\ outputFiles' = t.outputFiles
           /\ disk' = t.disk
           /\ run' = [run EXCEPT !.failed = t.failed]
    /\ lines' = Append(lines, sending[1])
    /\ sending' = << >>
    /\ UNCHANGED <<variant, filename, pc, doc, terminated, fed, other, arg,
                   ret, flagVars>>
    /\ UNCHANGED <<closureVars, enumVars>>

\* The last pattern is done: ProcessFiles returns and the deferred
\* out.Close() of every file of the table runs.
RunReturn ==
    /\ RunIdle
    /\ run.files = << >>
    /\ run.patterns = << >>
    /\ run' = [run EXCEPT !.pc = "returned"]
    /\ outputFiles' = {}
    /\ UNCHANGED <<variant, filename, pc, doc, terminated, fed, lines,
                   sending, other, arg, ret, disk, flagVars>>
    /\ UNCHANGED <<closureVars, enumVars>>

NextRun ==
    \/ \E version \in {"closure", "enum"}, writeCode \in BOOLEAN,
          writeText \in BOOLEAN, patterns \in RunPatterns :
           RunProcessFiles(version, writeCode, writeText, patterns)
    \/ RunGlob
    \/ RunNextFile
    \/ \E opened \in BOOLEAN : RunProcessFile(opened)
    \/ RunExit
    \/ \E l \in RunLines : RunScan(l)
    \/ \E nl \in BOOLEAN : RunScanEnd(nl)
    \/ \E l \in RunLines : RunReadLine(l)
    \/ \E l \in RunLines \cup {<< >>} : RunReadEOF(l)
    \/ RunClose
    \/ \E codeCreated \in BOOLEAN, textCreated \in BOOLEAN :
           RunReceive(codeCreated, textCreated)
    \/ RunReturn

SpecRun == Init /\ [][NextRun]_vars


\* A call of ProcessFile or of os.Create in the run of ProcessFiles has
\* returned an error.
RunFailed == pc = "failed" \/ run.failed

\* C21: in ProcessFiles, when a document cannot be opened or an output file
\* cannot be created, the run is aborted at once with a non-zero exit: the
\* only step after the failure is the exit with a non-zero code, no record
\* is written and no table entry or file is made after it, and no later
\* document is opened.
FailureAbortsTheRun ==
    [][(/\ variant \in {"closure", "enum"}
        /\ run.pc = "loop"
        /\ RunFailed \/ run.exit # 0)
       => /\ run.exit = 0
          /\ run'.exit # 0
          /\ disk' = disk
          /\ outputFiles' = outputFiles
          /\ run'.file = run.file
          /\ run'.files = run.files
          /\ run'.patterns = run.patterns
          /\ filename' = filename
          /\ pc' = pc]_vars

\* The run has ended with exit code 1 on an output file that could not be
\* created, after it had written to another file and while a document of
\* the pattern was still to come.
FailureAbortsTheRunWitness ==
    /\ variant \in {"closure", "enum"}
    /\ run.pc = "loop"
    /\ run.exit = 1
    /\ run.failed
    /\ run.files # << >>
    /\ \E p \in DOMAIN disk : disk[p].content # << >>

\* A pattern the run has expanded so far is malformed.
BadPatternSeen ==
    \E i \in 1..Len(run.globbed) : Glob(run.globbed[i]).err

\* C22: in ProcessFiles a malformed pattern aborts the run with a non-zero
\* exit: once filepath.Glob has been called with a malformed pattern, the
\* only step of the run is the exit with a non-zero code; the run does not
\* go on to the next pattern.
MalformedPatternAbortsTheRun ==
    [][(/\ variant \in {"closure", "enum"}
        /\ run.pc = "loop"
        /\ BadPatternSeen)
       => run'.exit # 0]_vars

\* s is the beginning of t.
IsPrefix(s, t) == Len(s) <= Len(t) /\ SubSeq(t, 1, Len(s)) = s

ChunksOf(path, line) ==
    (IF /\ run.writeCode
        /\ line.CodeTarget # << >>
        /\ TargetKey(run.file, line.CodeTarget) = path
     THEN <<Printed(line.Code)>> ELSE << >>)
    \o (IF /\ run.writeText
           /\ line.TextTarget # << >>
           /\ TargetKey(run.file, line.TextTarget) = path
        THEN <<Printed(line.Text)>> ELSE << >>)

\* The chunks written to the file path for the records recs of the current
\* document, in the order of the records.
RECURSIVE ChunksFor(_, _)
ChunksFor(path, recs) ==
    IF recs = << >> THEN << >>
    ELSE ChunksFor(path, SubSeq(recs, 1, Len(recs) - 1))
         \o ChunksOf(path, Last(recs))

\* s is the end of t.
IsSuffix(s, t) ==
    Len(s) <= Len(t) /\ SubSeq(t, Len(t) - Len(s) + 1, Len(t)) = s

\* The run of ProcessFiles goes on without a failure.
RunLoops ==
    /\ variant \in {"closure", "enum"}
    /\ run.pc = "loop"
    /\ run.exit = 0
    /\ ~run.failed

\* C31: ProcessFiles handles its documents one after another.  It goes on
\* to the next document, and starts ProcessFile for it, only when the
\* channel of the current one is closed and nothing is in flight, and that
\* step writes nothing; so in every file the chunks written for the
\* current document are the end of the file, after all that was written
\* for the documents before.  A line is classified only by the goroutine
\* of the current document, which is the only one running.
DocumentsAreHandledInTurn ==
    /\ [](RunLoops =>
            \A p \in DOMAIN disk : IsSuffix(ChunksFor(p, lines),
                                            disk[p].content))
    /\ [][RunLoops =>
            (/\ (run'.file # run.file
                    => (/\ (run.file = << >> \/ pc = "closed")
                        /\ sending = << >>
                        /\ disk' = disk))
             /\ (pc = "start" /\ pc' \in {"scan", "read"}
                    => (/\ sending = << >>
                        /\ fed = << >>
                        /\ lines = << >>
                        /\ filename' = run.file))
             /\ (Len(fed') > Len(fed)
                    => (/\ filename = run.file
                        /\ pc \in {"scan", "read"})))]_vars

\* The second document of the pattern *.md is done: its channel is closed
\* and drained, and a file that held chunks of the first document holds
\* the chunks of the second after them.
DocumentsAreHandledInTurnWitness ==
    /\ RunLoops
    /\ run.globbed = <<PatternAll>>
    /\ run.file = FlagG
    /\ pc = "closed"
    /\ sending = << >>
    /\ \E p \in DOMAIN disk :
           /\ ChunksFor(p, lines) # << >>
           /\ Len(disk[p].content) > Len(ChunksFor(p, lines))

====
